---------------------------- MODULE Spec2Model ----------------------------
(***************************************************************************)
(* Bag-of-words matrix of a corpus, computed twice by main.cpp: once by    *)
(* run_serial on rank 0 (serial.cpp) and once by run_parallel on all MPI   *)
(* ranks (paralelo.cpp).                                                   *)
(*                                                                         *)
(* Bytes are their integer codes, a std::string is a sequence of bytes, a  *)
(* std::set<std::string> is a set of such sequences iterated in ascending  *)
(* lexicographic order, a std::map<std::string,int> is a function whose    *)
(* domain is the set of keys.  Document indices and ranks are 0-based as   *)
(* in the code; TLA+ sequences are 1-based.                                *)
(***************************************************************************)
EXTENDS Integers, Sequences, FiniteSets, TLC

\* ------------------------------------------------------------------ bounds
MaxDocs == 3        \* listed documents
MaxBytes == 3       \* total bytes of all listed documents
MaxWorkers == 2     \* MPI world size
MaxTrials == 1      \* num_experiments
MaxElapsed == 2     \* elapsed time a worker may measure, in clock units
MaxPartDocs == 6    \* documents of the round-robin loop taken alone
MaxPartWorkers == 4 \* workers of the round-robin loop taken alone
MaxLoopTrials == 2  \* num_experiments, for the trial loop with a small corpus
MaxLoopDocs == 2    \* listed documents, there
MaxLoopBytes == 1   \* total bytes of the listed documents, there
MaxAgainDocs == 2   \* listed documents of a first run that is followed by a second
MaxAgainBytes == 1  \* total bytes of those documents
MaxAddedBytes == 3  \* bytes of the document listed in addition for the second run
MaxListWorkers == 2 \* workers whose listings are joined, concatenated and split
MaxListTerms == 2   \* terms of the vocabulary of one of them
MaxTermLen == 2     \* bytes of a term, there

\* The bytes documents are made of: a separator (space), an upper-case letter
\* (B) and a lower-case letter (a).
Alphabet == {32, 66, 97}

NL == 10            \* '\n'

VARIABLES
  \* the environment of one run
  fs,                 \* the listed files, by position in the list
  argc_ok,            \* argc >= 4
  num_experiments,
  world_size,
  csv_serial,         \* results/bow_serial.csv
  csv_mpi,            \* results/bow_mpi.csv
  writes,             \* the calls of write_csv so far
  cerr,               \* per rank: the diagnostics printed so far
  \* the MPI library
  mpi_calls,          \* per rank: the MPI calls made so far, in order
  chan,               \* per rank: contributions sent to rank 0, not yet received
  bq,                 \* per rank: broadcasts of rank 0 not yet received
  bar_count,          \* per rank: barriers entered
  \* main, per rank
  pc,
  trial,              \* the loop variable i of main
  document_paths,
  \* run_parallel, per rank
  local_counts,
  local_doc_indices,
  local_vocab_serialized,
  broadcast_vocab,
  vocab_bytes,
  global_vocabulary,
  local_rows_flat,
  local_elapsed,
  \* run_parallel, rank 0
  vocab_byte_counts,
  vocab_displs,
  global_vocab_buffer,
  row_counts,
  doc_index_displs,
  gathered_doc_indices,
  value_counts,
  value_displs,
  gathered_values,
  ordered_rows,
  max_elapsed,
  \* the round-robin loop taken alone
  pD, pW, pAssigned,
  \* a run that follows an earlier run of the program
  prev_serial,        \* results/bow_serial.csv as the earlier run left it
  prev_mpi,           \* results/bow_mpi.csv as the earlier run left it
  added,              \* where the list has one more document than before (0: nowhere)
  \* the command line
  stoi_ok,            \* std::stoi succeeds on argv[1] and on argv[3]
  \* the listings taken alone
  list_words,              \* per worker: the std::set given to join_words_with_newline
  list_serialized,         \* per worker: what join_words_with_newline returned
  list_parts,              \* per worker: what split_by_newline returned for it
  global_vocab_set    \* what rank 0 collects from the concatenated listings

envvars == <<fs, argc_ok, num_experiments, world_size>>
outvars == <<csv_serial, csv_mpi, writes>>
mpivars == <<chan, bq, bar_count>>
workervars == <<local_counts, local_doc_indices, local_vocab_serialized, broadcast_vocab,
                vocab_bytes, global_vocabulary, local_rows_flat, local_elapsed>>
rootvars == <<vocab_byte_counts, vocab_displs, global_vocab_buffer, row_counts,
              doc_index_displs, gathered_doc_indices, value_counts, value_displs,
              gathered_values, ordered_rows, max_elapsed>>
mainvars == <<envvars, outvars, cerr, mpi_calls, mpivars, pc, trial, document_paths,
              workervars, rootvars>>
againvars == <<prev_serial, prev_mpi, added>>
listvars == <<list_words, list_serialized, list_parts, global_vocab_set>>
partvars == <<pD, pW, pAssigned, againvars, stoi_ok, listvars>>
vars == <<mainvars, partvars>>

Ranks == 0 .. (world_size - 1)
NoFile == [exists |-> FALSE]

\* ------------------------------------------------------------- libc, STL
Min(a, b) == IF a <= b THEN a ELSE b

\* std::tolower in the "C" locale
tolower(c) == IF c >= 65 /\ c <= 90 THEN c + 32 ELSE c

\* std::isalnum in the "C" locale
isalnum(c) == (c >= 48 /\ c <= 57) \/ (c >= 65 /\ c <= 90) \/ (c >= 97 /\ c <= 122)

\* std::string::operator< : bytes compared as unsigned, a proper prefix is less
LexLess(a, b) ==
  \E k \in 1 .. (Min(Len(a), Len(b)) + 1) :
     /\ \A j \in 1 .. (k - 1) : a[j] = b[j]
     /\ \/ k > Len(a) /\ k <= Len(b)
        \/ k <= Len(a) /\ k <= Len(b) /\ a[k] < b[k]

\* SortedSeq with std::greater for the comparison
RECURSIVE SortedSeq_Desc(_)
SortedSeq_Desc(S) ==
  IF S = {} THEN <<>>
  ELSE LET m == CHOOSE x \in S : \A y \in S \ {x} : LexLess(y, x)
       IN  <<m>> \o SortedSeq_Desc(S \ {m})

\* The iteration order of a std::set<std::string> (or of the keys of a
\* std::map<std::string,int>): ascending by operator<.
RECURSIVE SortedSeq(_)
SortedSeq(S) ==
  IF S = {} THEN <<>>
  ELSE LET m == CHOOSE x \in S : \A y \in S \ {x} : LexLess(x, y)
       IN  <<m>> \o SortedSeq(S \ {m})

Range(s) == {s[k] : k \in DOMAIN s}

RECURSIVE Sum(_)
Sum(s) == IF s = <<>> THEN 0 ELSE Head(s) + Sum(Tail(s))

RECURSIVE Flatten(_)
Flatten(ss) == IF ss = <<>> THEN <<>> ELSE Head(ss) \o Flatten(Tail(ss))

\* the empty std::map
EmptyMap == [t \in {} |-> 0]

\* ------------------------------------------------------------ file system
\* std::filesystem::path(p).filename(): a path is a directory and a base name
filename(path) == path.name

\* load_document_names: the non-empty lines of the list file; the k-th listed
\* name is k.
load_document_names == [k \in 1 .. Len(fs) |-> k]

\* resolve_document_paths without the second test of std::filesystem::exists
resolve_document_paths_KeepMissing(names) ==
  [k \in 1 .. Len(names) |-> [dir |-> "books", name |-> names[k]]]

\* resolve_document_paths: a name found neither beside the list nor in books/
\* is dropped with a warning; the others keep their order.
RECURSIVE resolve_document_paths(_)
resolve_document_paths(names) ==
  IF names = <<>> THEN <<>>
  ELSE LET name == Head(names)
           rest == resolve_document_paths(Tail(names))
       IN  IF ~fs[name].exists THEN rest
           ELSE <<[dir |-> "books", name |-> name]>> \o rest


\* ----------------------------------------------------------- paralelo.cpp
\* read_file: the whole content, or the empty string when the file cannot be
\* opened.
read_file(path) ==
  LET file == fs[path.name]
  IN  IF ~file.readable THEN <<>> ELSE file.content

RECURSIVE TokenizeFrom(_, _, _, _)
TokenizeFrom(content, k, current_token, tokens) ==
  IF k > Len(content)
  THEN IF current_token # <<>> THEN Append(tokens, current_token) ELSE tokens
  ELSE LET lower == tolower(content[k])
       IN  IF isalnum(lower) \/ lower = 95
           THEN TokenizeFrom(content, k + 1, Append(current_token, lower), tokens)
           ELSE IF current_token # <<>>
                THEN TokenizeFrom(content, k + 1, <<>>, Append(tokens, current_token))
                ELSE TokenizeFrom(content, k + 1, <<>>, tokens)

tokenize_document(content) == TokenizeFrom(content, 1, <<>>, <<>>)

RECURSIVE CountFrom(_, _, _)
CountFrom(tokens, k, word_counts) ==
  IF k > Len(tokens) THEN word_counts
  ELSE LET token == tokens[k]
       IN  CountFrom(tokens, k + 1,
                     IF token \in DOMAIN word_counts
                     THEN [word_counts EXCEPT ![token] = @ + 1]
                     ELSE word_counts @@ (token :> 1))

\* count_tokens with "word_counts[token] = 1" for "++word_counts[token]"
count_tokens_Assign(tokens) == [t \in Range(tokens) |-> 1]

count_tokens(tokens) == CountFrom(tokens, 1, EmptyMap)

\* JoinFrom without "serialized.push_back('\n')"
RECURSIVE JoinFrom_NoNewline(_)
JoinFrom_NoNewline(words) ==
  IF words = <<>> THEN <<>> ELSE Head(words) \o JoinFrom_NoNewline(Tail(words))

RECURSIVE JoinFrom(_)
JoinFrom(words) ==
  IF words = <<>> THEN <<>>
  ELSE Head(words) \o <<NL>> \o JoinFrom(Tail(words))

\* words is a std::set: its words are joined in ascending order
join_words_with_newline(words) == JoinFrom(SortedSeq(words))

RECURSIVE SplitFrom(_, _, _, _)
SplitFrom(data, k, current, parts) ==
  IF k > Len(data)
  THEN IF current # <<>> THEN Append(parts, current) ELSE parts
  ELSE IF data[k] = NL
       THEN IF current # <<>>
            THEN SplitFrom(data, k + 1, <<>>, Append(parts, current))
            ELSE SplitFrom(data, k + 1, <<>>, parts)
       ELSE SplitFrom(data, k + 1, Append(current, data[k]), parts)

split_by_newline(data) == SplitFrom(data, 1, <<>>, <<>>)

\* write_csv: the header is "document" and the vocabulary, then one line per
\* row of the matrix: the name and the values.  The file is its fields.
write_csv(matrix, vocabulary, doc_names) ==
  [exists |-> TRUE,
   header |-> vocabulary,
   rows   |-> [k \in 1 .. Len(matrix) |-> [name |-> doc_names[k], values |-> matrix[k]]]]

\* RoundRobinFrom with the loop test "idx <= size"
RECURSIVE RoundRobinFrom_Le(_, _, _)
RoundRobinFrom_Le(idx, D, W) ==
  IF idx <= D THEN <<idx>> \o RoundRobinFrom_Le(idx + W, D, W) ELSE <<>>

\* The indices the loop of run_parallel visits: idx = world_rank; idx < D;
\* idx += world_size.
RECURSIVE RoundRobinFrom(_, _, _)
RoundRobinFrom(idx, D, W) ==
  IF idx < D THEN <<idx>> \o RoundRobinFrom(idx + W, D, W) ELSE <<>>

AssignedIndices(D, W, r) == RoundRobinFrom(r, D, W)

\* The body of that loop over the indices idxs: a document whose content is
\* empty is skipped, the others are tokenized and counted.
RECURSIVE ReadAssigned(_, _)
ReadAssigned(paths, idxs) ==
  IF idxs = <<>> THEN [counts |-> <<>>, indices |-> <<>>]
  ELSE LET idx == Head(idxs)
           content == read_file(paths[idx + 1])
           rest == ReadAssigned(paths, Tail(idxs))
       IN  IF content = <<>> THEN rest
           ELSE [counts  |-> <<count_tokens(tokenize_document(content))>> \o rest.counts,
                 indices |-> <<idx>> \o rest.indices]

\* local_vocab: the keys of all the worker's maps
LocalVocab(counts) == UNION {DOMAIN counts[k] : k \in DOMAIN counts}

\* The displacement loops of rank 0: displs[i] is the running total before i.
RECURSIVE RunningTotal(_, _)
RunningTotal(counts, i) ==
  IF i = 0 THEN 0 ELSE RunningTotal(counts, i - 1) + counts[i - 1]

\* Displs with "total += counts[i]" before "displs[i] = total"
Displs_AfterAdding(counts, n) == [i \in 0 .. (n - 1) |-> RunningTotal(counts, i + 1)]

Displs(counts, n) == [i \in 0 .. (n - 1) |-> RunningTotal(counts, i)]

\* What MPI_Gatherv leaves in the receive buffer of rank 0, a zero-filled
\* vector of the given size: the recvcounts[i] elements sent by rank i, at
\* displs[i].
MPI_Gatherv(sends, recvcounts, displs, size) ==
  [k \in 1 .. size |->
     LET from == {i \in DOMAIN sends : displs[i] < k /\ k <= displs[i] + recvcounts[i]}
     IN  IF from = {} THEN 0
         ELSE LET i == CHOOSE i \in from : TRUE IN sends[i][k - displs[i]]]

\* GlobalVocabSet with the loop bound "i < world_size - 1"
GlobalVocabSet_SkipLast(buffer, counts, displs, n) ==
  UNION {IF counts[i] = 0 THEN {}
         ELSE Range(split_by_newline(SubSeq(buffer, displs[i] + 1, displs[i] + counts[i])))
         : i \in 0 .. (n - 2)}

\* global_vocab_set and broadcast_vocab of rank 0: every non-empty chunk of
\* the buffer is split and its words inserted; the set is joined again.
GlobalVocabSet(buffer, counts, displs, n) ==
  UNION {IF counts[i] = 0 THEN {}
         ELSE Range(split_by_newline(SubSeq(buffer, displs[i] + 1, displs[i] + counts[i])))
         : i \in 0 .. (n - 1)}

BroadcastVocab(buffer, counts, displs, n) ==
  join_words_with_newline(GlobalVocabSet(buffer, counts, displs, n))

\* vocab_index: emplace keeps the first position of a word
VocabIndex(vocabulary) ==
  [t \in Range(vocabulary) |->
     CHOOSE i \in 0 .. (Len(vocabulary) - 1) :
        vocabulary[i + 1] = t /\ \A j \in 0 .. (i - 1) : vocabulary[j + 1] # t]

\* DenseRow with "row[pos] = 1" for "row[pos] = entry.second"
DenseRow_Presence(document_map, index, vocab_size) ==
  [j \in 1 .. vocab_size |->
     LET hits == {t \in DOMAIN document_map : t \in DOMAIN index /\ index[t] = j - 1}
     IN  IF hits = {} THEN 0 ELSE 1]

\* One dense row: zeros, then the count of every entry found in vocab_index.
DenseRow(document_map, index, vocab_size) ==
  [j \in 1 .. vocab_size |->
     LET hits == {t \in DOMAIN document_map : t \in DOMAIN index /\ index[t] = j - 1}
     IN  IF hits = {} THEN 0 ELSE document_map[CHOOSE t \in hits : TRUE]]

\* LocalRowsFlat with the rows appended in the reverse order of local_counts
LocalRowsFlat_Reversed(counts, vocabulary) ==
  Flatten([k \in 1 .. Len(counts) |->
             DenseRow(counts[Len(counts) + 1 - k], VocabIndex(vocabulary), Len(vocabulary))])

LocalRowsFlat(counts, vocabulary) ==
  Flatten([k \in 1 .. Len(counts) |->
             DenseRow(counts[k], VocabIndex(vocabulary), Len(vocabulary))])

\* GatheredPairs taking an empty value buffer for "no row"
GatheredPairs_NoEmpty(indices, values, total_rows, vocab_size) ==
  IF vocab_size = 0 THEN <<>>
  ELSE [k \in 1 .. total_rows |->
          <<indices[k], SubSeq(values, (k - 1) * vocab_size + 1, k * vocab_size)>>]

\* The pairs (document index, row) rank 0 cuts out of the gathered buffers.
GatheredPairs(indices, values, total_rows, vocab_size) ==
  [k \in 1 .. total_rows |->
     <<indices[k],
       IF vocab_size > 0
       THEN SubSeq(values, (k - 1) * vocab_size + 1, k * vocab_size)
       ELSE <<>>>>]

\* SortByIndex with the comparison "lhs.first > rhs.first"
RECURSIVE SortByIndex_Desc(_)
SortByIndex_Desc(pairs) ==
  IF pairs = <<>> THEN <<>>
  ELSE LET m == CHOOSE k \in DOMAIN pairs : \A j \in DOMAIN pairs : pairs[k][1] >= pairs[j][1]
       IN  <<pairs[m]>> \o
           SortByIndex_Desc([k \in 1 .. (Len(pairs) - 1) |->
                               IF k < m THEN pairs[k] ELSE pairs[k + 1]])

\* SortByIndex with the call of std::sort left out
SortByIndex_None(pairs) == pairs

\* std::sort by the first component (the document indices are distinct).
RECURSIVE SortByIndex(_)
SortByIndex(pairs) ==
  IF pairs = <<>> THEN <<>>
  ELSE LET m == CHOOSE k \in DOMAIN pairs : \A j \in DOMAIN pairs : pairs[k][1] <= pairs[j][1]
       IN  <<pairs[m]>> \o
           SortByIndex([k \in 1 .. (Len(pairs) - 1) |-> IF k < m THEN pairs[k] ELSE pairs[k + 1]])

\* --------------------------------------------------------------- serial.cpp
serial_read_file(path) ==
  LET file == fs[path.name]
  IN  IF ~file.readable THEN <<>> ELSE file.content

RECURSIVE SerialTokenizeFrom(_, _, _, _)
SerialTokenizeFrom(content, k, current_token, tokens) ==
  IF k > Len(content)
  THEN IF current_token # <<>> THEN Append(tokens, current_token) ELSE tokens
  ELSE LET lower == tolower(content[k])
       IN  IF isalnum(lower) \/ lower = 95
           THEN SerialTokenizeFrom(content, k + 1, Append(current_token, lower), tokens)
           ELSE IF current_token # <<>>
                THEN SerialTokenizeFrom(content, k + 1, <<>>, Append(tokens, current_token))
                ELSE SerialTokenizeFrom(content, k + 1, <<>>, tokens)

serial_tokenize_document(content) == SerialTokenizeFrom(content, 1, <<>>, <<>>)

RECURSIVE SerialCountFrom(_, _, _)
SerialCountFrom(tokens, k, word_counts) ==
  IF k > Len(tokens) THEN word_counts
  ELSE LET token == tokens[k]
       IN  SerialCountFrom(tokens, k + 1,
                           IF token \in DOMAIN word_counts
                           THEN [word_counts EXCEPT ![token] = @ + 1]
                           ELSE word_counts @@ (token :> 1))

serial_count_tokens(tokens) == SerialCountFrom(tokens, 1, EmptyMap)

\* ordered_unique_tokens is a std::map: its keys come out in ascending order
build_vocabulary(document_counts) ==
  SortedSeq(UNION {DOMAIN document_counts[k] : k \in DOMAIN document_counts})

\* build_matrix with the j-th count of the document's own map in column j
build_matrix_NoLookup(document_counts, vocabulary) ==
  [d \in 1 .. Len(document_counts) |->
     LET keys == SortedSeq(DOMAIN document_counts[d])
     IN  [j \in 1 .. Len(vocabulary) |->
            IF j <= Len(keys) THEN document_counts[d][keys[j]] ELSE 0]]

build_matrix(document_counts, vocabulary) ==
  [d \in 1 .. Len(document_counts) |->
     [j \in 1 .. Len(vocabulary) |->
        IF vocabulary[j] \in DOMAIN document_counts[d]
        THEN document_counts[d][vocabulary[j]] ELSE 0]]

serial_write_csv(matrix, vocabulary, doc_names) ==
  [exists |-> TRUE,
   header |-> vocabulary,
   rows   |-> [k \in 1 .. Len(matrix) |-> [name |-> doc_names[k], values |-> matrix[k]]]]

\* SerialRead with the name pushed before the test "content.empty()"
RECURSIVE SerialRead_NameBeforeSkip(_)
SerialRead_NameBeforeSkip(paths) ==
  IF paths = <<>> THEN [counts |-> <<>>, names |-> <<>>]
  ELSE LET document_path == Head(paths)
           content == serial_read_file(document_path)
           rest == SerialRead_NameBeforeSkip(Tail(paths))
       IN  [counts |-> (IF content = <<>> THEN <<>>
                        ELSE <<serial_count_tokens(serial_tokenize_document(content))>>)
                       \o rest.counts,
            names  |-> <<filename(document_path)>> \o rest.names]

\* The reading loop of run_serial over all the paths, in order.
RECURSIVE SerialRead(_)
SerialRead(paths) ==
  IF paths = <<>> THEN [counts |-> <<>>, names |-> <<>>]
  ELSE LET document_path == Head(paths)
           content == serial_read_file(document_path)
           rest == SerialRead(Tail(paths))
       IN  IF content = <<>> THEN rest
           ELSE [counts |-> <<serial_count_tokens(serial_tokenize_document(content))>>
                            \o rest.counts,
                 names  |-> <<filename(document_path)>> \o rest.names]

\* The "No se pudo abrir el archivo" lines of read_file over the paths read.
RECURSIVE OpenFailures(_)
OpenFailures(paths) ==
  IF paths = <<>> THEN <<>>
  ELSE (IF ~fs[Head(paths).name].readable
        THEN <<[msg |-> "open_failed", name |-> Head(paths).name]>> ELSE <<>>)
       \o OpenFailures(Tail(paths))

Diag(m) == [msg |-> m, name |-> 0]

\* run_serial without the test "document_counts.empty()"
run_serial_NoEmptyCheck(paths) ==
  IF paths = <<>>
  THEN [wrote |-> FALSE, file |-> NoFile, cerr |-> <<Diag("serial_no_documents")>>]
  ELSE LET read == SerialRead(paths)
           vocabulary == build_vocabulary(read.counts)
           matrix == build_matrix(read.counts, vocabulary)
       IN  [wrote |-> TRUE,
            file |-> serial_write_csv(matrix, vocabulary, read.names),
            cerr |-> OpenFailures(paths)]

\* run_serial: whether it calls write_csv, the file written, and what it
\* prints on std::cerr.
run_serial(paths) ==
  IF paths = <<>>
  THEN [wrote |-> FALSE, file |-> NoFile, cerr |-> <<Diag("serial_no_documents")>>]
  ELSE LET read == SerialRead(paths)
       IN  IF read.counts = <<>>
           THEN [wrote |-> FALSE, file |-> NoFile,
                 cerr |-> OpenFailures(paths) \o <<Diag("serial_no_valid_document")>>]
           ELSE LET vocabulary == build_vocabulary(read.counts)
                    matrix == build_matrix(read.counts, vocabulary)
                IN  [wrote |-> TRUE,
                     file |-> serial_write_csv(matrix, vocabulary, read.names),
                     cerr |-> OpenFailures(paths)]


\* ------------------------------------------------------------------- Init
UnreadableFile == [exists |-> TRUE, readable |-> FALSE, content |-> <<>>]
MissingFile == [exists |-> FALSE, readable |-> FALSE, content |-> <<>>]

\* the files of at most b bytes: missing, unreadable, or readable with content
Files(b) ==
  {MissingFile, UnreadableFile} \cup
  {[exists |-> TRUE, readable |-> TRUE, content |-> c] :
     c \in UNION {[1 .. n -> Alphabet] : n \in 0 .. b}}

\* the lists of d files of at most b bytes in all
RECURSIVE Corpora(_, _)
Corpora(d, b) ==
  IF d = 0 THEN {<<>>}
  ELSE UNION {{<<f>> \o c : c \in Corpora(d - 1, b - Len(f.content))} : f \in Files(b)}

\* no listing is taken alone
NotRun == [done |-> FALSE, value |-> <<>>]
NoListing ==
  /\ list_words = <<>> /\ list_serialized = <<>> /\ list_parts = <<>> /\ global_vocab_set = NotRun

\* every process at the first line of main, nothing written yet
MainStart ==
  /\ csv_serial = NoFile
  /\ csv_mpi = NoFile
  /\ writes = <<>>
  /\ cerr = [r \in 0 .. (world_size - 1) |-> <<>>]
  /\ mpi_calls = [r \in 0 .. (world_size - 1) |-> <<>>]
  /\ chan = [r \in 0 .. (world_size - 1) |-> <<>>]
  /\ bq = [r \in 0 .. (world_size - 1) |-> <<>>]
  /\ bar_count = [r \in 0 .. (world_size - 1) |-> 0]
  /\ pc = [r \in 0 .. (world_size - 1) |-> "start"]
  /\ trial = [r \in 0 .. (world_size - 1) |-> 0]
  /\ document_paths = [r \in 0 .. (world_size - 1) |-> <<>>]
  /\ local_counts = [r \in 0 .. (world_size - 1) |-> <<>>]
  /\ local_doc_indices = [r \in 0 .. (world_size - 1) |-> <<>>]
  /\ local_vocab_serialized = [r \in 0 .. (world_size - 1) |-> <<>>]
  /\ broadcast_vocab = [r \in 0 .. (world_size - 1) |-> <<>>]
  /\ vocab_bytes = [r \in 0 .. (world_size - 1) |-> 0]
  /\ global_vocabulary = [r \in 0 .. (world_size - 1) |-> <<>>]
  /\ local_rows_flat = [r \in 0 .. (world_size - 1) |-> <<>>]
  /\ local_elapsed = [r \in 0 .. (world_size - 1) |-> 0]
  /\ vocab_byte_counts = <<>>
  /\ vocab_displs = <<>>
  /\ global_vocab_buffer = <<>>
  /\ row_counts = <<>>
  /\ doc_index_displs = <<>>
  /\ gathered_doc_indices = <<>>
  /\ value_counts = <<>>
  /\ value_displs = <<>>
  /\ gathered_values = <<>>
  /\ ordered_rows = <<>>
  /\ max_elapsed = 0
  /\ prev_serial = NoFile /\ prev_mpi = NoFile /\ added = 0

\* A run: the arguments, the size of the world and the listed files.  Without
\* its arguments the program has no list and no trial.
Init ==
  /\ argc_ok \in BOOLEAN
  /\ num_experiments \in (IF argc_ok THEN 0 .. MaxTrials ELSE {0})
  /\ world_size \in 1 .. MaxWorkers
  /\ fs \in (IF argc_ok THEN UNION {Corpora(d, MaxBytes) : d \in 0 .. MaxDocs} ELSE {<<>>})
  /\ MainStart
  /\ pD = 0 /\ pW = 1 /\ pAssigned = <<>>
  /\ stoi_ok = TRUE
  /\ NoListing

\* ------------------------------------------------------------ MPI library
Others == Ranks \ {0}

\* rank r makes the MPI call op
Call(r, op) == mpi_calls' = [mpi_calls EXCEPT ![r] = Append(@, op)]

\* A gather or a reduce at a rank other than 0: the contribution is handed to
\* the library and the call may return before rank 0 has made its own call.
SendToRoot(r, op, data) ==
  chan' = [chan EXCEPT ![r] = Append(@, [op |-> op, data |-> data])]

\* A gather or a reduce at rank 0 returns once every rank has contributed.
AllContributed == \A q \in Others : chan[q] # <<>>
Contributions(own) == [i \in Ranks |-> IF i = 0 THEN own ELSE Head(chan[i]).data]
ReceiveAll == chan' = [q \in Ranks |-> IF q = 0 THEN chan[q] ELSE Tail(chan[q])]

\* A broadcast at rank 0 may return before the other ranks have received it.
BcastFromRoot(op, data) ==
  bq' = [q \in Ranks |-> IF q = 0 THEN bq[q] ELSE Append(bq[q], [op |-> op, data |-> data])]

\* MaxOf with MPI_MIN for MPI_MAX
RECURSIVE MaxOf_Min(_)
MaxOf_Min(S) == LET x == CHOOSE x \in S : TRUE
                IN  IF S = {x} THEN x
                    ELSE LET m == MaxOf_Min(S \ {x}) IN IF x < m THEN x ELSE m

\* MPI_Reduce with MPI_MAX
RECURSIVE MaxOf(_)
MaxOf(S) == LET x == CHOOSE x \in S : TRUE
            IN  IF S = {x} THEN x
                ELSE LET m == MaxOf(S \ {x}) IN IF x > m THEN x ELSE m

\* ------------------------------------------------------------------- main
\* main.cpp 59-64: MPI_Init, rank and size
MainInit(r) ==
  /\ pc[r] = "start"
  /\ Call(r, "Init")
  /\ pc' = [pc EXCEPT ![r] = "args"]
  /\ UNCHANGED <<envvars, outvars, cerr, mpivars, trial, document_paths, workervars,
                 rootvars, partvars>>

\* main.cpp 66-107: the usage error, the numbers of the command line, the
\* list, the paths; no path, no run.  std::stoi throws on an argument that is
\* no number; nothing catches the exception, so std::terminate ends the
\* process where it stands.
MainArgs(r) ==
  /\ pc[r] = "args"
  /\ IF ~argc_ok
     THEN /\ cerr' = [cerr EXCEPT ![r] = IF r = 0 THEN Append(@, Diag("usage")) ELSE @]
          /\ Call(r, "Finalize")
          /\ pc' = [pc EXCEPT ![r] = "exit"]
          /\ UNCHANGED document_paths
     ELSE IF ~stoi_ok
     THEN /\ cerr' = [cerr EXCEPT ![r] = Append(@, Diag("terminate"))]
          /\ pc' = [pc EXCEPT ![r] = "terminated"]
          /\ UNCHANGED <<mpi_calls, document_paths>>
     ELSE LET documents == load_document_names
              paths == resolve_document_paths(documents)
              listed == IF r = 0 /\ documents = <<>> THEN <<Diag("empty_list")>> ELSE <<>>
          IN  IF paths = <<>>
              THEN /\ cerr' = [cerr EXCEPT ![r] =
                                 @ \o listed \o
                                 (IF r = 0 THEN <<Diag("no_valid_path")>> ELSE <<>>)]
                   /\ Call(r, "Finalize")
                   /\ pc' = [pc EXCEPT ![r] = "exit"]
                   /\ UNCHANGED document_paths
              ELSE /\ cerr' = [cerr EXCEPT ![r] = @ \o listed]
                   /\ document_paths' = [document_paths EXCEPT ![r] = paths]
                   /\ pc' = [pc EXCEPT ![r] = "loop"]
                   /\ UNCHANGED mpi_calls
  /\ UNCHANGED <<envvars, outvars, mpivars, trial, workervars, rootvars, partvars>>

\* MainLoop without the test "world_rank == 0" around run_serial
MainLoop_EveryRank(r) ==
  /\ pc[r] = "loop"
  /\ IF trial[r] < num_experiments
     THEN /\ pc' = [pc EXCEPT ![r] = "main_barrier"]
          /\ UNCHANGED mpi_calls
          /\ LET serial_result == run_serial(document_paths[r])
             IN  /\ cerr' = [cerr EXCEPT ![r] = @ \o serial_result.cerr]
                 /\ IF serial_result.wrote
                    THEN /\ csv_serial' = serial_result.file
                         /\ writes' = Append(writes, [rank |-> r, file |-> "bow_serial.csv",
                                                      trial |-> trial[r]])
                    ELSE UNCHANGED <<csv_serial, writes>>
     ELSE /\ Call(r, "Finalize")
          /\ pc' = [pc EXCEPT ![r] = "done"]
          /\ UNCHANGED <<cerr, csv_serial, writes>>
  /\ UNCHANGED <<envvars, csv_mpi, mpivars, trial, document_paths, workervars, rootvars,
                 partvars>>

\* main.cpp 112-118 and 130-143: the head of the trial loop; rank 0 runs the
\* serial version; after the last trial MPI_Finalize.  (The accumulated
\* times and the summary printed are left out.)
MainLoop(r) ==
  /\ pc[r] = "loop"
  /\ IF trial[r] < num_experiments
     THEN /\ pc' = [pc EXCEPT ![r] = "main_barrier"]
          /\ UNCHANGED mpi_calls
          /\ IF r = 0
             THEN LET serial_result == run_serial(document_paths[r])
                  IN  /\ cerr' = [cerr EXCEPT ![r] = @ \o serial_result.cerr]
                      /\ IF serial_result.wrote
                         THEN /\ csv_serial' = serial_result.file
                              /\ writes' = Append(writes, [rank |-> r, file |-> "bow_serial.csv",
                                                           trial |-> trial[r]])
                         ELSE UNCHANGED <<csv_serial, writes>>
             ELSE UNCHANGED <<cerr, csv_serial, writes>>
     ELSE /\ Call(r, "Finalize")
          /\ pc' = [pc EXCEPT ![r] = "done"]
          /\ UNCHANGED <<cerr, csv_serial, writes>>
  /\ UNCHANGED <<envvars, csv_mpi, mpivars, trial, document_paths, workervars, rootvars,
                 partvars>>

\* main.cpp 121: MPI_Barrier before the parallel version, entered ...
MainBarrier(r) ==
  /\ pc[r] = "main_barrier"
  /\ Call(r, "Barrier")
  /\ bar_count' = [bar_count EXCEPT ![r] = @ + 1]
  /\ pc' = [pc EXCEPT ![r] = "main_barrier_wait"]
  /\ UNCHANGED <<envvars, outvars, cerr, chan, bq, trial, document_paths, workervars,
                 rootvars, partvars>>

\* MainBarrierExit without the wait for the other ranks
MainBarrierExit_NoWait(r) ==
  /\ pc[r] = "main_barrier_wait"
  /\ pc' = [pc EXCEPT ![r] = "p_local"]
  /\ UNCHANGED <<envvars, outvars, cerr, mpi_calls, mpivars, trial, document_paths,
                 workervars, rootvars, partvars>>

\* ... and left once every rank has entered it
MainBarrierExit(r) ==
  /\ pc[r] = "main_barrier_wait"
  /\ \A q \in Ranks : bar_count[q] >= bar_count[r]
  /\ pc' = [pc EXCEPT ![r] = "p_local"]
  /\ UNCHANGED <<envvars, outvars, cerr, mpi_calls, mpivars, trial, document_paths,
                 workervars, rootvars, partvars>>

\* ------------------------------------------------------------ run_parallel
\* PLocal returning when the worker has processed no document, not only when
\* no path is given
PLocal_ReturnsWithoutDocuments(r) ==
  /\ pc[r] = "p_local"
  /\ IF ReadAssigned(document_paths[r],
                     AssignedIndices(Len(document_paths[r]), world_size, r)).counts = <<>>
     THEN /\ pc' = [pc EXCEPT ![r] = "loop"]
          /\ trial' = [trial EXCEPT ![r] = @ + 1]
          /\ UNCHANGED <<cerr, workervars, rootvars>>
     ELSE LET paths == document_paths[r]
              idxs == AssignedIndices(Len(paths), world_size, r)
              read == ReadAssigned(paths, idxs)
          IN  /\ cerr' = [cerr EXCEPT ![r] =
                            @ \o OpenFailures([k \in 1 .. Len(idxs) |-> paths[idxs[k] + 1]])]
              /\ local_counts' = [local_counts EXCEPT ![r] = read.counts]
              /\ local_doc_indices' = [local_doc_indices EXCEPT ![r] = read.indices]
              /\ local_vocab_serialized' =
                   [local_vocab_serialized EXCEPT ![r] =
                      join_words_with_newline(LocalVocab(read.counts))]
              /\ broadcast_vocab' = [broadcast_vocab EXCEPT ![r] = <<>>]
              /\ vocab_bytes' = [vocab_bytes EXCEPT ![r] = 0]
              /\ global_vocabulary' = [global_vocabulary EXCEPT ![r] = <<>>]
              /\ local_rows_flat' = [local_rows_flat EXCEPT ![r] = <<>>]
              /\ local_elapsed' = [local_elapsed EXCEPT ![r] = 0]
              /\ IF r = 0
                 THEN /\ vocab_byte_counts' = <<>>
                      /\ vocab_displs' = <<>>
                      /\ global_vocab_buffer' = <<>>
                      /\ row_counts' = <<>>
                      /\ doc_index_displs' = <<>>
                      /\ gathered_doc_indices' = <<>>
                      /\ value_counts' = <<>>
                      /\ value_displs' = <<>>
                      /\ gathered_values' = <<>>
                      /\ ordered_rows' = <<>>
                      /\ max_elapsed' = 0
                 ELSE UNCHANGED rootvars
              /\ pc' = [pc EXCEPT ![r] = "p_gather_sizes"]
              /\ UNCHANGED trial
  /\ UNCHANGED <<envvars, outvars, mpi_calls, mpivars, document_paths, partvars>>

\* paralelo.cpp 129-166: the timer starts; the worker reads, tokenizes and
\* counts its documents and serializes its vocabulary.  The locals of the call
\* are fresh.
PLocal(r) ==
  /\ pc[r] = "p_local"
  /\ IF document_paths[r] = <<>>
     THEN /\ pc' = [pc EXCEPT ![r] = "loop"]
          /\ trial' = [trial EXCEPT ![r] = @ + 1]
          /\ UNCHANGED <<cerr, workervars, rootvars>>
     ELSE LET paths == document_paths[r]
              idxs == AssignedIndices(Len(paths), world_size, r)
              read == ReadAssigned(paths, idxs)
          IN  /\ cerr' = [cerr EXCEPT ![r] =
                            @ \o OpenFailures([k \in 1 .. Len(idxs) |-> paths[idxs[k] + 1]])]
              /\ local_counts' = [local_counts EXCEPT ![r] = read.counts]
              /\ local_doc_indices' = [local_doc_indices EXCEPT ![r] = read.indices]
              /\ local_vocab_serialized' =
                   [local_vocab_serialized EXCEPT ![r] =
                      join_words_with_newline(LocalVocab(read.counts))]
              /\ broadcast_vocab' = [broadcast_vocab EXCEPT ![r] = <<>>]
              /\ vocab_bytes' = [vocab_bytes EXCEPT ![r] = 0]
              /\ global_vocabulary' = [global_vocabulary EXCEPT ![r] = <<>>]
              /\ local_rows_flat' = [local_rows_flat EXCEPT ![r] = <<>>]
              /\ local_elapsed' = [local_elapsed EXCEPT ![r] = 0]
              /\ IF r = 0
                 THEN /\ vocab_byte_counts' = <<>>
                      /\ vocab_displs' = <<>>
                      /\ global_vocab_buffer' = <<>>
                      /\ row_counts' = <<>>
                      /\ doc_index_displs' = <<>>
                      /\ gathered_doc_indices' = <<>>
                      /\ value_counts' = <<>>
                      /\ value_displs' = <<>>
                      /\ gathered_values' = <<>>
                      /\ ordered_rows' = <<>>
                      /\ max_elapsed' = 0
                 ELSE UNCHANGED rootvars
              /\ pc' = [pc EXCEPT ![r] = "p_gather_sizes"]
              /\ UNCHANGED trial
  /\ UNCHANGED <<envvars, outvars, mpi_calls, mpivars, document_paths, partvars>>

\* PGatherSizes with a gather that returns at rank 0 without waiting for the
\* other ranks: the counts not yet received are still the zeros of resize()
PGatherSizes_NoWait(r) ==
  /\ pc[r] = "p_gather_sizes"
  /\ Call(r, "Gather")
  /\ IF r = 0
     THEN /\ vocab_byte_counts' =
               [i \in Ranks |-> IF i = 0 THEN Len(local_vocab_serialized[r])
                                ELSE IF chan[i] = <<>> THEN 0 ELSE Head(chan[i]).data]
          /\ chan' = [q \in Ranks |-> IF q = 0 \/ chan[q] = <<>> THEN chan[q]
                                      ELSE Tail(chan[q])]
     ELSE /\ SendToRoot(r, "Gather", Len(local_vocab_serialized[r]))
          /\ UNCHANGED vocab_byte_counts
  /\ pc' = [pc EXCEPT ![r] = "p_gatherv_vocab"]
  /\ UNCHANGED <<envvars, outvars, cerr, bq, bar_count, trial, document_paths, workervars,
                 vocab_displs, global_vocab_buffer, row_counts, doc_index_displs,
                 gathered_doc_indices, value_counts, value_displs, gathered_values,
                 ordered_rows, max_elapsed, partvars>>

\* paralelo.cpp 168-173: MPI_Gather of the byte counts
PGatherSizes(r) ==
  /\ pc[r] = "p_gather_sizes"
  /\ Call(r, "Gather")
  /\ IF r = 0
     THEN /\ AllContributed
          /\ vocab_byte_counts' = Contributions(Len(local_vocab_serialized[r]))
          /\ ReceiveAll
     ELSE /\ SendToRoot(r, "Gather", Len(local_vocab_serialized[r]))
          /\ UNCHANGED vocab_byte_counts
  /\ pc' = [pc EXCEPT ![r] = "p_gatherv_vocab"]
  /\ UNCHANGED <<envvars, outvars, cerr, bq, bar_count, trial, document_paths, workervars,
                 vocab_displs, global_vocab_buffer, row_counts, doc_index_displs,
                 gathered_doc_indices, value_counts, value_displs, gathered_values,
                 ordered_rows, max_elapsed, partvars>>

\* paralelo.cpp 175-190: the displacements and MPI_Gatherv of the listings
PGathervVocab(r) ==
  /\ pc[r] = "p_gatherv_vocab"
  /\ Call(r, "Gatherv")
  /\ IF r = 0
     THEN /\ AllContributed
          /\ LET displs == Displs(vocab_byte_counts, world_size)
                 total == RunningTotal(vocab_byte_counts, world_size)
             IN  /\ vocab_displs' = displs
                 /\ global_vocab_buffer' =
                      MPI_Gatherv(Contributions(local_vocab_serialized[r]),
                                  vocab_byte_counts, displs, total)
          /\ ReceiveAll
     ELSE /\ SendToRoot(r, "Gatherv", local_vocab_serialized[r])
          /\ UNCHANGED <<vocab_displs, global_vocab_buffer>>
  /\ pc' = [pc EXCEPT ![r] = "p_bcast_len"]
  /\ UNCHANGED <<envvars, outvars, cerr, bq, bar_count, trial, document_paths, workervars,
                 vocab_byte_counts, row_counts, doc_index_displs,
                 gathered_doc_indices, value_counts, value_displs, gathered_values,
                 ordered_rows, max_elapsed, partvars>>

\* PBcastLen with global_vocabulary split out of broadcast_vocab already here,
\* before the listing has been broadcast
PBcastLen_SplitsBeforeBcast(r) ==
  /\ pc[r] = "p_bcast_len"
  /\ Call(r, "Bcast")
  /\ IF r = 0
     THEN LET merged == BroadcastVocab(global_vocab_buffer, vocab_byte_counts,
                                       vocab_displs, world_size)
          IN  /\ broadcast_vocab' = [broadcast_vocab EXCEPT ![r] = merged]
              /\ vocab_bytes' = [vocab_bytes EXCEPT ![r] = Len(merged)]
              /\ global_vocabulary' =
                   [global_vocabulary EXCEPT ![r] = split_by_newline(merged)]
              /\ BcastFromRoot("Bcast", Len(merged))
     ELSE /\ bq[r] # <<>>
          /\ vocab_bytes' = [vocab_bytes EXCEPT ![r] = Head(bq[r]).data]
          /\ bq' = [bq EXCEPT ![r] = Tail(@)]
          /\ UNCHANGED <<broadcast_vocab, global_vocabulary>>
  /\ pc' = [pc EXCEPT ![r] = "p_bcast_vocab"]
  /\ UNCHANGED <<envvars, outvars, cerr, chan, bar_count, trial, document_paths,
                 local_counts, local_doc_indices, local_vocab_serialized,
                 local_rows_flat, local_elapsed, rootvars, partvars>>

\* paralelo.cpp 192-213: rank 0 merges the listings; MPI_Bcast of the length
PBcastLen(r) ==
  /\ pc[r] = "p_bcast_len"
  /\ Call(r, "Bcast")
  /\ IF r = 0
     THEN LET merged == BroadcastVocab(global_vocab_buffer, vocab_byte_counts,
                                       vocab_displs, world_size)
          IN  /\ broadcast_vocab' = [broadcast_vocab EXCEPT ![r] = merged]
              /\ vocab_bytes' = [vocab_bytes EXCEPT ![r] = Len(merged)]
              /\ BcastFromRoot("Bcast", Len(merged))
     ELSE /\ bq[r] # <<>>
          /\ vocab_bytes' = [vocab_bytes EXCEPT ![r] = Head(bq[r]).data]
          /\ bq' = [bq EXCEPT ![r] = Tail(@)]
          /\ UNCHANGED broadcast_vocab
  /\ pc' = [pc EXCEPT ![r] = "p_bcast_vocab"]
  /\ UNCHANGED <<envvars, outvars, cerr, chan, bar_count, trial, document_paths,
                 local_counts, local_doc_indices, local_vocab_serialized,
                 global_vocabulary, local_rows_flat, local_elapsed, rootvars, partvars>>

\* paralelo.cpp 214-226: MPI_Bcast of the listing into a buffer of vocab_bytes
\* bytes; every rank splits it into its global_vocabulary
PBcastVocab(r) ==
  /\ pc[r] = "p_bcast_vocab"
  /\ Call(r, "Bcast")
  /\ IF r = 0
     THEN /\ BcastFromRoot("Bcast", broadcast_vocab[r])
          /\ global_vocabulary' =
               [global_vocabulary EXCEPT ![r] = split_by_newline(broadcast_vocab[r])]
          /\ UNCHANGED broadcast_vocab
     ELSE /\ bq[r] # <<>>
          /\ LET received == [k \in 1 .. vocab_bytes[r] |-> Head(bq[r]).data[k]]
             IN  /\ broadcast_vocab' = [broadcast_vocab EXCEPT ![r] = received]
                 /\ global_vocabulary' =
                      [global_vocabulary EXCEPT ![r] = split_by_newline(received)]
          /\ bq' = [bq EXCEPT ![r] = Tail(@)]
  /\ pc' = [pc EXCEPT ![r] = "p_gather_rows"]
  /\ UNCHANGED <<envvars, outvars, cerr, chan, bar_count, trial, document_paths,
                 local_counts, local_doc_indices, local_vocab_serialized, vocab_bytes,
                 local_rows_flat, local_elapsed, rootvars, partvars>>

\* paralelo.cpp 228-234: MPI_Gather of the row counts
PGatherRows(r) ==
  /\ pc[r] = "p_gather_rows"
  /\ Call(r, "Gather")
  /\ IF r = 0
     THEN /\ AllContributed
          /\ row_counts' = Contributions(Len(local_counts[r]))
          /\ ReceiveAll
     ELSE /\ SendToRoot(r, "Gather", Len(local_counts[r]))
          /\ UNCHANGED row_counts
  /\ pc' = [pc EXCEPT ![r] = "p_gatherv_idx"]
  /\ UNCHANGED <<envvars, outvars, cerr, bq, bar_count, trial, document_paths, workervars,
                 vocab_byte_counts, vocab_displs, global_vocab_buffer, doc_index_displs,
                 gathered_doc_indices, value_counts, value_displs, gathered_values,
                 ordered_rows, max_elapsed, partvars>>

\* paralelo.cpp 236-264: the dense rows of the worker; the displacements and
\* MPI_Gatherv of the document indices
PGathervIdx(r) ==
  /\ pc[r] = "p_gatherv_idx"
  /\ Call(r, "Gatherv")
  /\ local_rows_flat' =
       [local_rows_flat EXCEPT ![r] = LocalRowsFlat(local_counts[r], global_vocabulary[r])]
  /\ IF r = 0
     THEN /\ AllContributed
          /\ LET displs == Displs(row_counts, world_size)
                 running == RunningTotal(row_counts, world_size)
             IN  /\ doc_index_displs' = displs
                 /\ gathered_doc_indices' =
                      MPI_Gatherv(Contributions(local_doc_indices[r]), row_counts, displs,
                                  running)
          /\ ReceiveAll
     ELSE /\ SendToRoot(r, "Gatherv", local_doc_indices[r])
          /\ UNCHANGED <<doc_index_displs, gathered_doc_indices>>
  /\ pc' = [pc EXCEPT ![r] = "p_gatherv_vals"]
  /\ UNCHANGED <<envvars, outvars, cerr, bq, bar_count, trial, document_paths,
                 local_counts, local_doc_indices, local_vocab_serialized, broadcast_vocab,
                 vocab_bytes, global_vocabulary, local_elapsed,
                 vocab_byte_counts, vocab_displs, global_vocab_buffer, row_counts,
                 value_counts, value_displs, gathered_values, ordered_rows, max_elapsed,
                 partvars>>

\* paralelo.cpp 266-285: the counts and displacements of the values and
\* MPI_Gatherv of the flattened rows
PGathervVals(r) ==
  /\ pc[r] = "p_gatherv_vals"
  /\ Call(r, "Gatherv")
  /\ IF r = 0
     THEN /\ AllContributed
          /\ LET vocab_size == Len(global_vocabulary[r])
                 counts == [i \in Ranks |-> row_counts[i] * vocab_size]
                 displs == Displs(counts, world_size)
                 running == RunningTotal(counts, world_size)
             IN  /\ value_counts' = counts
                 /\ value_displs' = displs
                 /\ gathered_values' =
                      MPI_Gatherv(Contributions(local_rows_flat[r]), counts, displs, running)
          /\ ReceiveAll
          /\ pc' = [pc EXCEPT ![r] = "p_assemble"]
     ELSE /\ SendToRoot(r, "Gatherv", local_rows_flat[r])
          /\ UNCHANGED <<value_counts, value_displs, gathered_values>>
          /\ pc' = [pc EXCEPT ![r] = "p_barrier"]
  /\ UNCHANGED <<envvars, outvars, cerr, bq, bar_count, trial, document_paths, workervars,
                 vocab_byte_counts, vocab_displs, global_vocab_buffer, row_counts,
                 doc_index_displs, gathered_doc_indices, ordered_rows, max_elapsed,
                 partvars>>

\* paralelo.cpp 287-324: rank 0 pairs every row with its document index,
\* sorts the pairs, names the rows and writes the file unless there is no row
PAssemble(r) ==
  /\ pc[r] = "p_assemble"
  /\ r = 0
  /\ LET vocab_size == Len(global_vocabulary[r])
         total_rows == Sum([k \in 1 .. world_size |-> row_counts[k - 1]])
         sorted == SortByIndex(GatheredPairs(gathered_doc_indices, gathered_values,
                                             total_rows, vocab_size))
         doc_names == [k \in 1 .. Len(sorted) |->
                         filename(document_paths[r][sorted[k][1] + 1])]
         matrix == [k \in 1 .. Len(sorted) |-> sorted[k][2]]
     IN  /\ ordered_rows' = sorted
         /\ IF doc_names # <<>>
            THEN /\ csv_mpi' = write_csv(matrix, global_vocabulary[r], doc_names)
                 /\ writes' = Append(writes, [rank |-> r, file |-> "bow_mpi.csv",
                                              trial |-> trial[r]])
                 /\ UNCHANGED cerr
            ELSE /\ cerr' = [cerr EXCEPT ![r] = Append(@, Diag("mpi_no_rows"))]
                 /\ UNCHANGED <<csv_mpi, writes>>
  /\ pc' = [pc EXCEPT ![r] = "p_barrier"]
  /\ UNCHANGED <<envvars, csv_serial, mpi_calls, mpivars, trial, document_paths, workervars,
                 vocab_byte_counts, vocab_displs, global_vocab_buffer, row_counts,
                 doc_index_displs, gathered_doc_indices, value_counts, value_displs,
                 gathered_values, max_elapsed, partvars>>

\* paralelo.cpp 327: the closing MPI_Barrier, entered ...
PBarrier(r) ==
  /\ pc[r] = "p_barrier"
  /\ Call(r, "Barrier")
  /\ bar_count' = [bar_count EXCEPT ![r] = @ + 1]
  /\ pc' = [pc EXCEPT ![r] = "p_barrier_wait"]
  /\ UNCHANGED <<envvars, outvars, cerr, chan, bq, trial, document_paths, workervars,
                 rootvars, partvars>>

\* paralelo.cpp 327-330: ... and left once every rank has entered it; the
\* worker then reads the clock: its elapsed time is whatever it measured
PBarrierExit(r) ==
  /\ pc[r] = "p_barrier_wait"
  /\ \A q \in Ranks : bar_count[q] >= bar_count[r]
  /\ \E elapsed \in 1 .. MaxElapsed :
        local_elapsed' = [local_elapsed EXCEPT ![r] = elapsed]
  /\ pc' = [pc EXCEPT ![r] = "p_reduce"]
  /\ UNCHANGED <<envvars, outvars, cerr, mpi_calls, mpivars, trial, document_paths,
                 local_counts, local_doc_indices, local_vocab_serialized, broadcast_vocab,
                 vocab_bytes, global_vocabulary, local_rows_flat, rootvars, partvars>>

\* paralelo.cpp 332-340 and main.cpp 123-128: MPI_Reduce with MPI_MAX to rank
\* 0, which stores the maximum in its result; the call returns and the trial
\* loop goes on
PReduce(r) ==
  /\ pc[r] = "p_reduce"
  /\ Call(r, "Reduce")
  /\ IF r = 0
     THEN /\ AllContributed
          /\ max_elapsed' = MaxOf(Range(Contributions(local_elapsed[r])))
          /\ ReceiveAll
     ELSE /\ SendToRoot(r, "Reduce", local_elapsed[r])
          /\ UNCHANGED max_elapsed
  /\ pc' = [pc EXCEPT ![r] = "loop"]
  /\ trial' = [trial EXCEPT ![r] = @ + 1]
  /\ UNCHANGED <<envvars, outvars, cerr, bq, bar_count, document_paths, workervars,
                 vocab_byte_counts, vocab_displs, global_vocab_buffer, row_counts,
                 doc_index_displs, gathered_doc_indices, value_counts, value_displs,
                 gathered_values, ordered_rows, partvars>>

Next ==
  \/ \E r \in Ranks : MainInit(r)
  \/ \E r \in Ranks : MainArgs(r)
  \/ \E r \in Ranks : MainLoop(r)
  \/ \E r \in Ranks : MainBarrier(r)
  \/ \E r \in Ranks : MainBarrierExit(r)
  \/ \E r \in Ranks : PLocal(r)
  \/ \E r \in Ranks : PGatherSizes(r)
  \/ \E r \in Ranks : PGathervVocab(r)
  \/ \E r \in Ranks : PBcastLen(r)
  \/ \E r \in Ranks : PBcastVocab(r)
  \/ \E r \in Ranks : PGatherRows(r)
  \/ \E r \in Ranks : PGathervIdx(r)
  \/ \E r \in Ranks : PGathervVals(r)
  \/ \E r \in Ranks : PAssemble(r)
  \/ \E r \in Ranks : PBarrier(r)
  \/ \E r \in Ranks : PBarrierExit(r)
  \/ \E r \in Ranks : PReduce(r)

Spec == Init /\ [][Next]_vars

\* The same program run for up to MaxLoopTrials trials on a small corpus.
InitTrials ==
  /\ argc_ok = TRUE
  /\ num_experiments \in 0 .. MaxLoopTrials
  /\ world_size \in 1 .. MaxWorkers
  /\ fs \in UNION {Corpora(d, MaxLoopBytes) : d \in 0 .. MaxLoopDocs}
  /\ MainStart
  /\ pD = 0 /\ pW = 1 /\ pAssigned = <<>>
  /\ stoi_ok = TRUE
  /\ NoListing

SpecTrials == InitTrials /\ [][Next]_vars

\* One step of the process of rank r.  Every worker stays alive and goes on
\* running: a call that can return does return.
RankStep(r) ==
  /\ r \in Ranks
  /\ \/ MainInit(r) \/ MainArgs(r) \/ MainLoop(r) \/ MainBarrier(r) \/ MainBarrierExit(r)
     \/ PLocal(r) \/ PGatherSizes(r) \/ PGathervVocab(r) \/ PBcastLen(r) \/ PBcastVocab(r)
     \/ PGatherRows(r) \/ PGathervIdx(r) \/ PGathervVals(r) \/ PAssemble(r)
     \/ PBarrier(r) \/ PBarrierExit(r) \/ PReduce(r)

Fairness == \A r \in 0 .. (MaxWorkers - 1) : WF_vars(RankStep(r))

SpecTrialsFair == InitTrials /\ [][Next]_vars /\ Fairness

\* The program on any command line: too few arguments, arguments that are no
\* numbers, any list, up to MaxLoopTrials trials.
InitMain ==
  /\ argc_ok \in BOOLEAN
  /\ stoi_ok \in (IF argc_ok THEN BOOLEAN ELSE {TRUE})
  /\ num_experiments \in (IF argc_ok /\ stoi_ok THEN 0 .. MaxLoopTrials ELSE {0})
  /\ world_size \in 1 .. MaxWorkers
  /\ fs \in (IF argc_ok THEN UNION {Corpora(d, MaxLoopBytes) : d \in 0 .. MaxLoopDocs}
             ELSE {<<>>})
  /\ MainStart
  /\ pD = 0 /\ pW = 1 /\ pAssigned = <<>>
  /\ NoListing

SpecMain == InitMain /\ [][Next]_vars

\* ------------------------------------------- a run, then a run on more
\* The program run for one trial on a small corpus and, once every process
\* has returned from main, run again with one more document in the list, at
\* any place of it; results/ keeps the files of the first run.
InitAgain ==
  /\ argc_ok = TRUE
  /\ num_experiments = 1
  /\ world_size \in 1 .. MaxWorkers
  /\ fs \in UNION {Corpora(d, MaxAgainBytes) : d \in 0 .. MaxAgainDocs}
  /\ MainStart
  /\ pD = 0 /\ pW = 1 /\ pAssigned = <<>>
  /\ stoi_ok = TRUE
  /\ NoListing

AddedFiles ==
  {[exists |-> TRUE, readable |-> TRUE, content |-> c] :
     c \in UNION {[1 .. n -> Alphabet] : n \in 1 .. MaxAddedBytes}}

InsertAt(seq, p, x) == SubSeq(seq, 1, p - 1) \o <<x>> \o SubSeq(seq, p, Len(seq))

RunAgain ==
  /\ added = 0
  /\ \A r \in Ranks : pc[r] \in {"done", "exit"}
  /\ \E p \in 1 .. (Len(fs) + 1) : \E f \in AddedFiles :
        /\ fs' = InsertAt(fs, p, f)
        /\ added' = p
  /\ prev_serial' = csv_serial
  /\ prev_mpi' = csv_mpi
  /\ writes' = <<>>
  /\ cerr' = [r \in Ranks |-> <<>>]
  /\ mpi_calls' = [r \in Ranks |-> <<>>]
  /\ chan' = [r \in Ranks |-> <<>>]
  /\ bq' = [r \in Ranks |-> <<>>]
  /\ bar_count' = [r \in Ranks |-> 0]
  /\ pc' = [r \in Ranks |-> "start"]
  /\ trial' = [r \in Ranks |-> 0]
  /\ document_paths' = [r \in Ranks |-> <<>>]
  /\ local_counts' = [r \in Ranks |-> <<>>]
  /\ local_doc_indices' = [r \in Ranks |-> <<>>]
  /\ local_vocab_serialized' = [r \in Ranks |-> <<>>]
  /\ broadcast_vocab' = [r \in Ranks |-> <<>>]
  /\ vocab_bytes' = [r \in Ranks |-> 0]
  /\ global_vocabulary' = [r \in Ranks |-> <<>>]
  /\ local_rows_flat' = [r \in Ranks |-> <<>>]
  /\ local_elapsed' = [r \in Ranks |-> 0]
  /\ vocab_byte_counts' = <<>>
  /\ vocab_displs' = <<>>
  /\ global_vocab_buffer' = <<>>
  /\ row_counts' = <<>>
  /\ doc_index_displs' = <<>>
  /\ gathered_doc_indices' = <<>>
  /\ value_counts' = <<>>
  /\ value_displs' = <<>>
  /\ gathered_values' = <<>>
  /\ ordered_rows' = <<>>
  /\ max_elapsed' = 0
  /\ UNCHANGED <<argc_ok, num_experiments, world_size, csv_serial, csv_mpi, pD, pW,
                 pAssigned, stoi_ok, listvars>>

NextAgain ==
  \/ Next
  \/ RunAgain

SpecAgain == InitAgain /\ [][NextAgain]_vars

\* The program run by two workers, for one trial or more, on the two documents
\* "the cat sat" and "the dog ran".
TheCatSat == <<116, 104, 101, 32, 99, 97, 116, 32, 115, 97, 116>>
TheDogRan == <<116, 104, 101, 32, 100, 111, 103, 32, 114, 97, 110>>

InitScenario ==
  /\ argc_ok = TRUE
  /\ num_experiments \in 1 .. MaxLoopTrials
  /\ world_size = 2
  /\ fs = <<[exists |-> TRUE, readable |-> TRUE, content |-> TheCatSat],
            [exists |-> TRUE, readable |-> TRUE, content |-> TheDogRan]>>
  /\ MainStart
  /\ pD = 0 /\ pW = 1 /\ pAssigned = <<>>
  /\ stoi_ok = TRUE
  /\ NoListing

SpecScenario == InitScenario /\ [][Next]_vars


\* ------------------------------------------- the round-robin loop, alone
\* The loop of paralelo.cpp 146 for D documents and W workers, each worker
\* running it on its own: nothing of another worker is read.
InitPart ==
  /\ argc_ok = FALSE /\ num_experiments = 0 /\ world_size = 1 /\ fs = <<>>
  /\ MainStart
  /\ pD \in 0 .. MaxPartDocs
  /\ pW \in 1 .. MaxPartWorkers
  /\ pAssigned = [r \in 0 .. (pW - 1) |-> [done |-> FALSE, idxs |-> <<>>]]
  /\ stoi_ok = TRUE
  /\ NoListing

PartRun(r) ==
  /\ ~pAssigned[r].done
  /\ pAssigned' = [pAssigned EXCEPT ![r] = [done |-> TRUE, idxs |-> AssignedIndices(pD, pW, r)]]
  /\ UNCHANGED <<pD, pW, againvars, stoi_ok, listvars, mainvars>>

NextPart == \E r \in 0 .. (pW - 1) : PartRun(r)

SpecPart == InitPart /\ [][NextPart]_vars


\* ------------------------------------------------- the listings, alone
\* join_words_with_newline and split_by_newline on the vocabularies of up to
\* MaxListWorkers workers, and the loop of rank 0 over the concatenation of
\* the listings (paralelo.cpp 195-205).  The terms are made of a digit, an
\* underscore and a lower-case letter.
TermAlphabet == {48, 95, 97}
ListTerms == UNION {[1 .. n -> TermAlphabet] : n \in 1 .. MaxTermLen}
ListSets == {S \in SUBSET ListTerms : Cardinality(S) <= MaxListTerms}

InitListing ==
  /\ argc_ok = FALSE /\ num_experiments = 0 /\ world_size = 1 /\ fs = <<>>
  /\ MainStart
  /\ pD = 0 /\ pW = 1 /\ pAssigned = <<>>
  /\ stoi_ok = TRUE
  /\ \E n \in 1 .. MaxListWorkers : list_words \in [0 .. (n - 1) -> ListSets]
  /\ list_serialized = [i \in DOMAIN list_words |-> NotRun]
  /\ list_parts = [i \in DOMAIN list_words |-> NotRun]
  /\ global_vocab_set = NotRun

\* paralelo.cpp 69-76 at worker i
Join(i) ==
  /\ ~list_serialized[i].done
  /\ list_serialized' = [list_serialized EXCEPT
                      ![i] = [done |-> TRUE, value |-> join_words_with_newline(list_words[i])]]
  /\ UNCHANGED <<list_words, list_parts, global_vocab_set, pD, pW, pAssigned, againvars, stoi_ok,
                 mainvars>>

\* paralelo.cpp 79-96 on the listing of worker i
Split(i) ==
  /\ list_serialized[i].done
  /\ ~list_parts[i].done
  /\ list_parts' = [list_parts EXCEPT
                 ![i] = [done |-> TRUE, value |-> split_by_newline(list_serialized[i].value)]]
  /\ UNCHANGED <<list_words, list_serialized, global_vocab_set, pD, pW, pAssigned, againvars,
                 stoi_ok, mainvars>>

\* paralelo.cpp 175-205: the listings one after the other in the buffer of
\* rank 0, in rank order, split chunk by chunk
Collect ==
  /\ \A i \in DOMAIN list_words : list_serialized[i].done
  /\ ~global_vocab_set.done
  /\ LET n == Cardinality(DOMAIN list_words)
         counts == [i \in DOMAIN list_words |-> Len(list_serialized[i].value)]
         displs == Displs(counts, n)
         buffer == Flatten([k \in 1 .. n |-> list_serialized[k - 1].value])
     IN  global_vocab_set' =
           [done |-> TRUE, value |-> GlobalVocabSet(buffer, counts, displs, n)]
  /\ UNCHANGED <<list_words, list_serialized, list_parts, pD, pW, pAssigned, againvars, stoi_ok,
                 mainvars>>

NextListing ==
  \/ \E i \in DOMAIN list_words : Join(i)
  \/ \E i \in DOMAIN list_words : Split(i)
  \/ Collect

SpecListing == InitListing /\ [][NextListing]_vars


\* ================================================================= claims
\* What the claims speak of, stated on the listed files themselves.

\* a byte of a term: a letter, a digit or an underscore
TermByte(b) == \/ b \in 48 .. 57 \/ b \in 65 .. 90 \/ b \in 97 .. 122 \/ b = 95
Lower(b) == IF b \in 65 .. 90 THEN b + 32 ELSE b

\* the maximal runs of term bytes of a content, as <<first, last>>
Runs(content) ==
  {run \in (DOMAIN content) \X (DOMAIN content) :
     /\ run[1] <= run[2]
     /\ \A k \in run[1] .. run[2] : TermByte(content[k])
     /\ run[1] = 1 \/ ~TermByte(content[run[1] - 1])
     /\ run[2] = Len(content) \/ ~TermByte(content[run[2] + 1])}

RunTerm(content, run) == [k \in 1 .. (run[2] - run[1] + 1) |-> Lower(content[run[1] + k - 1])]

\* how many times a term occurs in a content, and the terms of a content
Occurrences(term, content) ==
  Cardinality({run \in Runs(content) : RunTerm(content, run) = term})
TermsIn(content) == {RunTerm(content, run) : run \in Runs(content)}

\* the listed documents (by position in the list) that were read successfully,
\* and those among them a path processes: the ones with at least one byte
ReadOK == {k \in DOMAIN fs : fs[k].exists /\ fs[k].readable}
Processed == {k \in ReadOK : fs[k].content # <<>>}
AllTerms == UNION {TermsIn(fs[k].content) : k \in ReadOK}

RECURSIVE Ascending(_)
Ascending(S) ==
  IF S = {} THEN <<>>
  ELSE LET m == CHOOSE x \in S : \A y \in S : x <= y
       IN  <<m>> \o Ascending(S \ {m})

StrictlyLexAscending(seq) ==
  \A i, j \in DOMAIN seq : i < j => LexLess(seq[i], seq[j])

\* positions of run_parallel after the vocabulary broadcast, after the rows
\* were built, and (rank 0) after the matrix was assembled
AfterAssemble == {"p_barrier", "p_barrier_wait", "p_reduce"}
AfterRows == {"p_gatherv_vals", "p_assemble"} \cup AfterAssemble
AfterBcast == {"p_gather_rows", "p_gatherv_idx"} \cup AfterRows

\* rank 0 has assembled the matrix of trial t
TrialAssembled(t) == trial[0] > t \/ (trial[0] = t /\ pc[0] \in AfterAssemble)
Wrote(file, t) == \E k \in DOMAIN writes : writes[k].file = file /\ writes[k].trial = t

\* C1: once rank 0 has assembled a trial, the serial path and the parallel
\* path of that trial either both wrote no file or both wrote the same one:
\* the same vocabulary, the same names in the same order, the same rows.
C1_SerialParallelSame ==
  \A t \in 0 .. (num_experiments - 1) :
     TrialAssembled(t) =>
        /\ Wrote("bow_serial.csv", t) <=> Wrote("bow_mpi.csv", t)
        /\ csv_serial = csv_mpi

C1_Witness ==
  /\ TrialAssembled(0)
  /\ world_size = 2
  /\ csv_mpi.exists /\ csv_serial.exists
  /\ Len(csv_mpi.rows) = 2
  /\ Len(csv_mpi.header) = 2
  /\ Cardinality(ReadOK) = 3

\* C2: after the vocabulary broadcast every worker holds the same sequence:
\* all the terms of the successfully read documents, each once, strictly
\* ascending.
C2_VocabularySame ==
  \A r \in Ranks :
     pc[r] \in AfterBcast =>
        /\ Range(global_vocabulary[r]) = AllTerms
        /\ StrictlyLexAscending(global_vocabulary[r])
        /\ \A q \in Ranks : pc[q] \in AfterBcast => global_vocabulary[q] = global_vocabulary[r]

C2_Witness ==
  /\ world_size = 2
  /\ \A r \in Ranks : pc[r] \in AfterBcast
  /\ Len(global_vocabulary[1]) = 2
  /\ LocalVocab(local_counts[0]) # {}
  /\ LocalVocab(local_counts[1]) # {}
  /\ LocalVocab(local_counts[0]) # LocalVocab(local_counts[1])

\* C3: the rows rank 0 has assembled are in strictly ascending document index
\* (no index twice), and the k-th name written is that of the k-th index.
C3_RowsAscending ==
  pc[0] \in AfterAssemble =>
     /\ \A i, j \in DOMAIN ordered_rows : i < j => ordered_rows[i][1] < ordered_rows[j][1]
     /\ Len(ordered_rows) = Sum([k \in 1 .. world_size |-> row_counts[k - 1]])
     /\ ordered_rows # <<>> =>
          /\ Len(csv_mpi.rows) = Len(ordered_rows)
          /\ \A k \in DOMAIN ordered_rows :
                csv_mpi.rows[k].name = document_paths[0][ordered_rows[k][1] + 1].name

\* the gathered indices arrived out of order
C3_Witness ==
  /\ pc[0] \in AfterAssemble
  /\ gathered_doc_indices = <<0, 2, 1>>

FileCounts(file) ==
  file.exists =>
     \A k \in DOMAIN file.rows :
        /\ Len(file.rows[k].values) = Len(file.header)
        /\ \A i \in DOMAIN file.header :
              file.rows[k].values[i] =
                Occurrences(file.header[i], fs[file.rows[k].name].content)

\* C5: in both paths every row is as long as the vocabulary and its i-th value
\* is the number of occurrences of the i-th term in the row's document: in the
\* two files, and in the rows every worker has built.
C5_RowCounts ==
  /\ FileCounts(csv_serial)
  /\ FileCounts(csv_mpi)
  /\ \A r \in Ranks :
        pc[r] \in AfterRows =>
           LET vocab_size == Len(global_vocabulary[r])
           IN  /\ Len(local_rows_flat[r]) = Len(local_counts[r]) * vocab_size
               /\ \A j \in DOMAIN local_doc_indices[r] : \A i \in 1 .. vocab_size :
                     local_rows_flat[r][(j - 1) * vocab_size + i] =
                       Occurrences(global_vocabulary[r][i],
                                   fs[document_paths[r][local_doc_indices[r][j] + 1].name].content)

\* a term counted twice, and a term absent from a document, in both files
C5_Witness ==
  /\ world_size = 2
  /\ csv_mpi.exists /\ csv_serial.exists
  /\ \E k \in DOMAIN csv_mpi.rows : \E i \in DOMAIN csv_mpi.header :
        csv_mpi.rows[k].values[i] = 2 /\ csv_serial.rows[k].values[i] = 2
  /\ \A r \in Ranks : pc[r] \in AfterRows

\* the serial path of trial t has returned
SerialDone(t) ==
  trial[0] > t \/ (trial[0] = t /\ pc[0] \notin {"start", "args", "loop", "exit", "done"})

\* C6: the matrix of either path has one row per listed document that was
\* read successfully.
C6_RowsEqualReadDocuments ==
  /\ pc[0] \in AfterAssemble => Len(ordered_rows) = Cardinality(ReadOK)
  /\ \A t \in 0 .. (num_experiments - 1) :
        SerialDone(t) =>
           (IF Wrote("bow_serial.csv", t) THEN Len(csv_serial.rows) ELSE 0)
             = Cardinality(ReadOK)

\* what the listed files determine, whatever the number of workers: no file
\* when no document is processed, else the sorted terms and, per processed
\* document in list order, its name and its counts
ExpectedFile ==
  LET docs == Ascending(Processed)
      vocabulary == SortedSeq(AllTerms)
  IN  IF docs = <<>> THEN NoFile
      ELSE [exists |-> TRUE,
            header |-> vocabulary,
            rows   |-> [k \in 1 .. Len(docs) |->
                          [name   |-> docs[k],
                           values |-> [i \in 1 .. Len(vocabulary) |->
                                         Occurrences(vocabulary[i], fs[docs[k]].content)]]]]

\* C7: the file of the parallel path is the one the listed files determine,
\* whatever world_size is, also when there are more workers than documents.
C7_SameForEveryWorkerCount ==
  \A t \in 0 .. (num_experiments - 1) : TrialAssembled(t) => csv_mpi = ExpectedFile

\* more workers than documents
C7_Witness ==
  /\ TrialAssembled(0)
  /\ world_size = 2
  /\ Len(document_paths[1]) = 1
  /\ local_counts[1] = <<>>
  /\ csv_mpi.exists
  /\ csv_mpi.header # <<>>

RowNames(file) == [k \in DOMAIN file.rows |-> file.rows[k].name]

\* C8: with three documents listed of which exactly one cannot be read, both
\* files have exactly two rows, those of the two readable documents in list
\* order.
C8_OneUnreadableOfThree ==
  (Len(fs) = 3 /\ Cardinality(ReadOK) = 2 /\ TrialAssembled(0)) =>
     /\ csv_mpi.exists /\ RowNames(csv_mpi) = Ascending(ReadOK)
     /\ csv_serial.exists /\ RowNames(csv_serial) = Ascending(ReadOK)

\* document k has a row of the file: all zeros, as long as the header
HasZeroRow(file, k) ==
  /\ file.exists
  /\ \E j \in DOMAIN file.rows :
        /\ file.rows[j].name = k
        /\ file.rows[j].values = [i \in 1 .. Len(file.header) |-> 0]

\* C9: every readable document without a term byte, of whatever length, has a
\* row in both files: all zeros, as long as the vocabulary.
C9_EmptyDocumentHasRow ==
  TrialAssembled(0) =>
     \A k \in ReadOK :
        TermsIn(fs[k].content) = {} => HasZeroRow(csv_mpi, k) /\ HasZeroRow(csv_serial, k)

\* the MPI calls of one trial, in order, and of a whole run of n trials
TrialCalls == <<"Barrier", "Gather", "Gatherv", "Bcast", "Bcast", "Gather", "Gatherv",
                "Gatherv", "Barrier", "Reduce">>
RECURSIVE Repeat(_, _)
Repeat(seq, n) == IF n = 0 THEN <<>> ELSE seq \o Repeat(seq, n - 1)

\* C10: when some document is processed and no document has a term, the
\* vocabulary of every worker is empty, no worker has any row value, no "no
\* rows" condition is reported, rank 0 writes a file with an empty header and
\* one (empty) row per processed document, no worker is ever stuck, and a
\* worker that ends has made every collective call of every trial.
C10_EmptyVocabularyNotAnError ==
  (Processed # {} /\ AllTerms = {}) =>
     /\ \A r \in Ranks :
           /\ pc[r] \in AfterBcast => global_vocabulary[r] = <<>> /\ vocab_bytes[r] = 0
           /\ pc[r] \in AfterRows => local_rows_flat[r] = <<>>
           /\ \A k \in DOMAIN cerr[r] : cerr[r][k].msg # "mpi_no_rows"
           /\ pc[r] # "exit"
           /\ pc[r] = "done" =>
                 mpi_calls[r] = <<"Init">> \o Repeat(TrialCalls, num_experiments)
                                 \o <<"Finalize">>
     /\ \A t \in 0 .. (num_experiments - 1) :
           TrialAssembled(t) =>
              /\ Wrote("bow_mpi.csv", t)
              /\ csv_mpi.exists
              /\ csv_mpi.header = <<>>
              /\ RowNames(csv_mpi) = Ascending(Processed)
              /\ \A k \in DOMAIN csv_mpi.rows : csv_mpi.rows[k].values = <<>>
     /\ (\E r \in Ranks : pc[r] # "done") => ENABLED Next

C10_Witness ==
  /\ Processed # {} /\ AllTerms = {}
  /\ world_size = 2
  /\ \A r \in Ranks : pc[r] = "done"
  /\ num_experiments = 1
  /\ Len(csv_mpi.rows) = 2
  /\ local_doc_indices[1] # <<>>

\* how many times a diagnostic was printed
CountMsg(log, m) == Cardinality({k \in DOMAIN log : log[k].msg = m})

\* the trials whose serial path has returned, and those rank 0 has assembled
SerialTrials ==
  IF pc[0] \in {"start", "args", "loop", "exit", "done"} THEN trial[0] ELSE trial[0] + 1
AssembledTrials == IF pc[0] \in AfterAssemble THEN trial[0] + 1 ELSE trial[0]
TotalRows == Sum([k \in 1 .. world_size |-> row_counts[k - 1]])

\* C11: the rows gathered in a trial are zero in all exactly when no listed
\* document is processed; then neither path ever calls write_csv (no file
\* exists), rank 0 prints "MPI: No se generaron filas" once per assembled
\* trial, and the serial path prints "No se pudo procesar" once per trial.
C11_NoRowsNoWrite ==
  /\ pc[0] \in AfterAssemble => (TotalRows = 0 <=> Processed = {})
  /\ Processed = {} =>
        /\ writes = <<>> /\ csv_serial = NoFile /\ csv_mpi = NoFile
        /\ CountMsg(cerr[0], "mpi_no_rows") = AssembledTrials
        /\ CountMsg(cerr[0], "serial_no_valid_document") = SerialTrials
  /\ Processed # {} =>
        /\ CountMsg(cerr[0], "mpi_no_rows") = 0
        /\ CountMsg(cerr[0], "serial_no_valid_document") = 0

\* two listed files exist, none is processed, and the trial is over
C11_Witness ==
  /\ Processed = {}
  /\ world_size = 2
  /\ Len(document_paths[0]) = 2
  /\ \A r \in Ranks : pc[r] = "done"
  /\ trial[0] = 1
  /\ CountMsg(cerr[0], "mpi_no_rows") = 1
  /\ CountMsg(cerr[0], "serial_no_valid_document") = 1

\* the calls in which data moves between the workers
DataCollectives == {"Gather", "Gatherv", "Bcast"}
NoListedFileExists == \A k \in DOMAIN fs : ~fs[k].exists
NothingWritten == writes = <<>> /\ csv_serial = NoFile /\ csv_mpi = NoFile

\* C12 as stated: when the list is empty or no listed document can be read,
\* no worker ever makes a gather or a broadcast, no file is written, and when
\* rank 0 leaves a run that asked for a trial it has reported the condition.
C12_AbortsWhenNoneReadable ==
  (fs = <<>> \/ ReadOK = {}) =>
     /\ \A r \in Ranks : Range(mpi_calls[r]) \cap DataCollectives = {}
     /\ NothingWritten
     /\ (num_experiments > 0 /\ pc[0] \in {"exit", "done"}) =>
           \E k \in DOMAIN cerr[0] :
              cerr[0][k].msg \in {"empty_list", "no_valid_path", "serial_no_valid_document",
                                  "mpi_no_rows"}

\* C12, amended: main aborts before the trial loop exactly when no listed
\* document exists (the list is empty, or no name resolves to a path): then
\* every worker calls only MPI_Init and MPI_Finalize, rank 0 reports it and no
\* file is written.  When some listed document exists but none can be read,
\* no worker aborts: every trial runs all its collectives, rank 0 reports "no
\* rows" once per assembled trial, and still no file is written.
C12_AbortsWhenNoPath ==
  /\ NoListedFileExists =>
        /\ \A r \in Ranks :
              /\ pc[r] \in {"start", "args", "exit"}
              /\ mpi_calls[r] \in {<<>>, <<"Init">>, <<"Init", "Finalize">>}
              /\ pc[r] = "exit" => mpi_calls[r] = <<"Init", "Finalize">>
        /\ NothingWritten
        /\ pc[0] = "exit" =>
              CountMsg(cerr[0], IF argc_ok THEN "no_valid_path" ELSE "usage") = 1
  /\ (~NoListedFileExists /\ ReadOK = {}) =>
        /\ \A r \in Ranks :
              /\ pc[r] # "exit"
              /\ pc[r] = "done" =>
                    mpi_calls[r] = <<"Init">> \o Repeat(TrialCalls, num_experiments)
                                    \o <<"Finalize">>
        /\ NothingWritten
        /\ CountMsg(cerr[0], "mpi_no_rows") = AssembledTrials
        /\ CountMsg(cerr[0], "no_valid_path") = 0

\* two names are listed, neither file exists, and both workers have left
C12_Witness ==
  /\ argc_ok
  /\ Len(fs) = 2
  /\ NoListedFileExists
  /\ world_size = 2
  /\ \A r \in Ranks : pc[r] = "exit"
  /\ CountMsg(cerr[0], "no_valid_path") = 1

\* C13: every call of write_csv is made by rank 0, and no file is written
\* twice in one trial: at most one call per path and trial.
C13_OneWriterRank0 ==
  /\ \A k \in DOMAIN writes : writes[k].rank = 0
  /\ \A j, k \in DOMAIN writes :
        (writes[j].file = writes[k].file /\ writes[j].trial = writes[k].trial) => j = k
  /\ \A k \in DOMAIN writes : writes[k].trial \in 0 .. trial[0]

\* two workers, two trials, both paths wrote in each
C13_Witness ==
  /\ world_size = 2
  /\ num_experiments = 2
  /\ \A r \in Ranks : pc[r] = "done"
  /\ Len(writes) = 4
  /\ Len(document_paths[1]) = 2

\* the terms of the two documents of the scenario, in ascending order
ScenarioVocabulary ==
  <<<<99, 97, 116>>, <<100, 111, 103>>, <<114, 97, 110>>, <<115, 97, 116>>,
    <<116, 104, 101>>>>

\* the scenario up to the matrix: worker 0 processes document 0 and worker 1
\* document 1, every worker holds the vocabulary cat, dog, ran, sat, the, and
\* the file has that header and one row per document, in list order
ScenarioRows(row0, row1) ==
  /\ \A r \in Ranks : pc[r] \in AfterBcast => global_vocabulary[r] = ScenarioVocabulary
  /\ \A r \in Ranks : pc[r] \in AfterBcast => local_doc_indices[r] = <<r>>
  /\ (\E t \in 0 .. (num_experiments - 1) : TrialAssembled(t)) =>
        /\ csv_mpi.exists
        /\ csv_mpi.header = ScenarioVocabulary
        /\ csv_mpi.rows = <<[name |-> 1, values |-> row0], [name |-> 2, values |-> row1]>>

\* C14 as stated: the rows are 0,0,0,1,1 for document 0 and 1,1,1,0,1 for
\* document 1.
C14_ScenarioAsStated == ScenarioRows(<<0, 0, 0, 1, 1>>, <<1, 1, 1, 0, 1>>)

\* C14, amended: with the vocabulary cat, dog, ran, sat, the, the rows are
\* 1,0,0,1,1 for document 0 ("the cat sat") and 0,1,1,0,1 for document 1
\* ("the dog ran"), in that order.
C14_Scenario == ScenarioRows(<<1, 0, 0, 1, 1>>, <<0, 1, 1, 0, 1>>)

C14_Witness ==
  /\ fs[1].content = TheCatSat
  /\ \A r \in Ranks : pc[r] = "done"
  /\ csv_mpi.exists
  /\ Len(csv_mpi.rows) = 2
  /\ csv_mpi = csv_serial

\* the row of counts of the listed document k against a vocabulary
CountsOf(k, vocabulary) ==
  [i \in 1 .. Len(vocabulary) |-> Occurrences(vocabulary[i], fs[k].content)]

\* the names of a written file are those of the processed documents, in list
\* order, and every row holds the counts of the document its name names
NamesPaired(file) ==
  file.exists =>
     /\ RowNames(file) = Ascending(Processed)
     /\ \A k \in DOMAIN file.rows :
           file.rows[k].values = CountsOf(file.rows[k].name, file.header)

\* C15: in both files the k-th name is the base name of the document the k-th
\* row was counted from, skipped documents leaving no name and no row; at rank
\* 0 every gathered row is still paired with the index of its own document
\* after the sort, and the name written for it is that of this index.
C15_NamesPairedWithRows ==
  /\ NamesPaired(csv_serial)
  /\ NamesPaired(csv_mpi)
  /\ pc[0] \in AfterAssemble =>
        /\ \A k \in DOMAIN ordered_rows :
              LET path == document_paths[0][ordered_rows[k][1] + 1]
              IN  /\ ordered_rows[k][2] = CountsOf(filename(path), global_vocabulary[0])
                  /\ csv_mpi.exists /\ csv_mpi.rows[k].name = filename(path)
                  /\ csv_mpi.rows[k].values = ordered_rows[k][2]
        /\ csv_mpi.exists => Len(csv_mpi.rows) = Len(ordered_rows)

\* the first document is skipped, the rows of the two others reach rank 0 out
\* of order and differ
C15_Witness ==
  /\ world_size = 2
  /\ pc[0] \in AfterAssemble
  /\ gathered_doc_indices = <<2, 1>>
  /\ ~fs[1].readable
  /\ RowNames(csv_mpi) = <<2, 3>>
  /\ RowNames(csv_serial) = <<2, 3>>
  /\ csv_mpi.rows[1].values # csv_mpi.rows[2].values

\* a file's header and rows, none when the file does not exist
HeaderOf(file) == IF file.exists THEN file.header ELSE <<>>
RowsOf(file) == IF file.exists THEN file.rows ELSE <<>>
ColumnOf(header, t) == CHOOSE i \in DOMAIN header : header[i] = t

\* the place in the longer list of the document that was n-th in the list
NewPlace(n) == IF n >= added THEN n + 1 ELSE n

\* the terms of the added document that the earlier vocabulary lacks
NewTerms(before) == TermsIn(fs[added].content) \ Range(HeaderOf(before))

\* after is before with the new terms as additional columns: as many more
\* columns as new terms, every earlier row still there under its document,
\* with its earlier value in every earlier column and 0 in every new column
Monotone(before, after) ==
  /\ after.exists
  /\ Len(after.header) = Len(HeaderOf(before)) + Cardinality(NewTerms(before))
  /\ Range(after.header) = Range(HeaderOf(before)) \cup NewTerms(before)
  /\ \A j \in DOMAIN RowsOf(before) :
        \E i \in DOMAIN after.rows :
           /\ after.rows[i].name = NewPlace(before.rows[j].name)
           /\ \A t \in Range(before.header) :
                 after.rows[i].values[ColumnOf(after.header, t)] =
                   before.rows[j].values[ColumnOf(before.header, t)]
           /\ \A t \in NewTerms(before) :
                 after.rows[i].values[ColumnOf(after.header, t)] = 0

\* C16: when the second run lists one more document and that document has
\* k >= 1 terms the first run's vocabulary lacks, each path of the second run
\* writes a file whose vocabulary is the earlier one and these k terms, and in
\* which every document of the first run keeps its values in the earlier
\* columns and has 0 in the k new ones.
C16_AddedDocumentAddsColumns ==
  added # 0 =>
     /\ (NewTerms(prev_mpi) # {} /\ TrialAssembled(0)) =>
           Wrote("bow_mpi.csv", 0) /\ Monotone(prev_mpi, csv_mpi)
     /\ (NewTerms(prev_serial) # {} /\ SerialDone(0)) =>
           Wrote("bow_serial.csv", 0) /\ Monotone(prev_serial, csv_serial)

\* the first run wrote a one-column file; the added document, put before the
\* two that were listed, brings one new term and is counted by the other worker
C16_Witness ==
  /\ added = 1
  /\ world_size = 2
  /\ Len(fs) = 3
  /\ prev_mpi.exists /\ Len(prev_mpi.header) = 1 /\ prev_mpi.rows[1].name = 1
  /\ Cardinality(NewTerms(prev_mpi)) = 1
  /\ \A r \in Ranks : pc[r] = "done"
  /\ Len(csv_mpi.header) = 2
  /\ Len(csv_mpi.rows) = 2
  /\ local_doc_indices[1] = <<1>>
  /\ csv_serial = csv_mpi

\* C17: when rank 0 is back in the trial loop after a distributed trial, the
\* time in its result is the greatest of the times the workers measured in
\* that trial, each measured after the closing barrier; a worker about to call
\* MPI_Reduce has left the closing barrier of its trial, which every worker
\* has entered, and in every worker's calls a Reduce comes right after a
\* Barrier.
C17_MaxElapsedAfterBarrier ==
  /\ (pc[0] \in {"loop", "done"} /\ trial[0] >= 1) =>
        /\ \A r \in Ranks : local_elapsed[r] \in 1 .. MaxElapsed
        /\ \A r \in Ranks : max_elapsed >= local_elapsed[r]
        /\ \E r \in Ranks : max_elapsed = local_elapsed[r]
  /\ \A r \in Ranks :
        pc[r] = "p_reduce" =>
           /\ bar_count[r] = 2 * (trial[r] + 1)
           /\ \A q \in Ranks : bar_count[q] >= bar_count[r]
           /\ local_elapsed[r] \in 1 .. MaxElapsed
  /\ \A r \in Ranks : \A k \in DOMAIN mpi_calls[r] :
        mpi_calls[r][k] = "Reduce" => (k > 1 /\ mpi_calls[r][k - 1] = "Barrier")

\* the second trial is over; rank 1 measured more than rank 0
C17_Witness ==
  /\ world_size = 2
  /\ num_experiments = 2
  /\ \A r \in Ranks : pc[r] = "done"
  /\ local_elapsed[0] = 1
  /\ local_elapsed[1] = 2
  /\ max_elapsed = 2

\* the MPI calls of a whole run of a worker
RunCalls ==
  IF NoListedFileExists THEN <<"Init", "Finalize">>
  ELSE <<"Init">> \o Repeat(TrialCalls, num_experiments) \o <<"Finalize">>

IsPrefix(s, t) == Len(s) <= Len(t) /\ \A k \in DOMAIN s : s[k] = t[k]
Returned == \A r \in Ranks : pc[r] \in {"done", "exit"}

\* every worker's calls so far are the beginning of the same sequence, all of
\* it once the worker has returned from main; and while some worker has not
\* returned, some worker can take a step
SameCollectives ==
  /\ \A r \in Ranks :
        /\ IsPrefix(mpi_calls[r], RunCalls)
        /\ pc[r] \in {"done", "exit"} => mpi_calls[r] = RunCalls
  /\ Returned \/ ENABLED Next

\* C18: in every trial every worker makes the same MPI calls in the same
\* order (barrier, size gather, listing gather, two broadcasts, row-count
\* gather, index gather, value gather, barrier, reduce), whatever documents it
\* has; and when every worker keeps running no call waits for ever: in the
\* end every worker has returned from main, having made all the calls of all
\* the trials.
C18_SameCollectivesAndTermination ==
  /\ []SameCollectives
  /\ <>Returned

\* two trials are over; rank 1 had a document it could not read and no other,
\* rank 0 had one with no term
C18_Witness ==
  /\ world_size = 2
  /\ num_experiments = 2
  /\ Returned
  /\ Len(document_paths[1]) = 2
  /\ local_counts[1] = <<>>
  /\ local_counts[0] # <<>>
  /\ mpi_calls[1] = <<"Init">> \o TrialCalls \o TrialCalls \o <<"Finalize">>
  /\ mpi_calls[0] = mpi_calls[1]

\* the k-th MPI call of a worker is a phase of the vocabulary exchange or of
\* the assembly that follows another such phase
LaterPhase(r, k) ==
  /\ k > 1
  /\ mpi_calls[r][k] \in DataCollectives
  /\ mpi_calls[r][k - 1] \in DataCollectives

BegunParallel(r, t) ==
  trial[r] > t \/ (trial[r] = t /\ pc[r] \in {"p_local", "p_gather_sizes"} \cup
                                          {"p_gatherv_vocab", "p_bcast_len", "p_bcast_vocab"}
                                          \cup AfterBcast)
ReachedClosingBarrier(q, t) ==
  trial[q] > t \/ (trial[q] = t /\ pc[q] \in {"p_barrier_wait", "p_reduce"})

\* C20: a worker that has begun the parallel path of a trial has done so
\* after rank 0 has returned from run_serial in that trial (its file written
\* if any document is processed), and after every worker has entered the
\* closing barrier of the trial before, if there is one.
C20_TrialsSeparated ==
  \A t \in 0 .. (num_experiments - 1) : \A r \in Ranks :
     BegunParallel(r, t) =>
        /\ SerialDone(t)
        /\ Processed # {} => Wrote("bow_serial.csv", t)
        /\ t > 0 => \A q \in Ranks : ReachedClosingBarrier(q, t - 1)

\* rank 1 has begun the parallel path of the second trial
C20_Witness ==
  /\ world_size = 2
  /\ num_experiments = 2
  /\ trial[1] = 1
  /\ pc[1] = "p_gather_sizes"
  /\ pc[0] = "p_local"
  /\ Wrote("bow_serial.csv", 1)

\* the steps in which worker r assigns its global_vocabulary (paralelo.cpp
\* 219) and builds its rows (paralelo.cpp 236-247)
VocabularyAssigned(r) == pc[r] = "p_bcast_vocab" /\ pc'[r] = "p_gather_rows"
RowsBuilt(r) == pc[r] = "p_gatherv_idx" /\ pc'[r] = "p_gatherv_vals"

\* the number of MPI calls worker r has made when it has just made the second
\* broadcast of its current trial
CallsAtVocabulary(r) == 1 + Len(TrialCalls) * trial[r] + 5

VocabularyStep ==
  \A r \in Ranks :
     /\ global_vocabulary'[r] # global_vocabulary[r] =>
           VocabularyAssigned(r) \/ pc[r] = "p_local"
     /\ VocabularyAssigned(r) =>
           /\ Len(mpi_calls'[r]) = CallsAtVocabulary(r)
           /\ Len(mpi_calls[r]) = CallsAtVocabulary(r) - 1
           /\ trial'[r] = trial[r]
     /\ local_rows_flat'[r] # local_rows_flat[r] => RowsBuilt(r) \/ pc[r] = "p_local"
     /\ RowsBuilt(r) =>
           /\ Len(mpi_calls[r]) >= CallsAtVocabulary(r)
           /\ local_rows_flat'[r] = LocalRowsFlat(local_counts[r], global_vocabulary[r])
     /\ pc[r] \in AfterBcast => global_vocabulary'[r] = global_vocabulary[r]

VocabularyHeld ==
  \A r \in Ranks :
     /\ pc[r] \in AfterBcast =>
           /\ Len(mpi_calls[r]) >= CallsAtVocabulary(r)
           /\ global_vocabulary[r] = split_by_newline(broadcast_vocab[r])
     /\ pc[r] \in {"p_gather_sizes", "p_gatherv_vocab", "p_bcast_len", "p_bcast_vocab",
                   "p_gather_rows", "p_gatherv_idx"} => local_rows_flat[r] = <<>>
     /\ pc[r] \in AfterRows =>
           local_rows_flat[r] = LocalRowsFlat(local_counts[r], global_vocabulary[r])

\* C21: in every trial a worker's global_vocabulary is assigned in one step
\* only, the one that makes the second broadcast of the trial (so once per
\* trial); the worker's rows are built only in a later step of the same trial,
\* from that vocabulary; and from the assignment to the end of the trial the
\* vocabulary does not change.
C21_VocabularyAssignedOnce ==
  /\ []VocabularyHeld
  /\ [][VocabularyStep]_vars

\* worker 1 has built a row in the second trial, from a vocabulary of one term
C21_Witness ==
  /\ world_size = 2
  /\ num_experiments = 2
  /\ trial[1] = 1
  /\ pc[1] \in AfterRows
  /\ Len(global_vocabulary[1]) = 1
  /\ local_rows_flat[1] = <<1>>


\* how many times a worker has made a call
CountCall(calls, op) == Cardinality({k \in DOMAIN calls : calls[k] = op})

\* the process of worker r has ended: it has returned from main or was ended
\* by std::terminate
Ended(r) == pc[r] \in {"exit", "done", "terminated"}

\* C22: whatever the command line, a worker calls MPI_Init at most once and
\* before any other MPI call, MPI_Finalize at most once and after any other
\* MPI call, and a worker whose process has ended has called each exactly
\* once.
C22_InitOnceFinalizeOnce ==
  \A r \in Ranks :
     /\ CountCall(mpi_calls[r], "Init") <= 1
     /\ CountCall(mpi_calls[r], "Finalize") <= 1
     /\ \A k \in DOMAIN mpi_calls[r] :
           /\ mpi_calls[r][k] = "Init" => k = 1
           /\ mpi_calls[r][k] = "Finalize" => k = Len(mpi_calls[r])
           /\ mpi_calls[r][k] \in {"Barrier", "Gather", "Gatherv", "Bcast", "Reduce"} =>
                 /\ mpi_calls[r][1] = "Init"
                 /\ \A j \in 1 .. k : mpi_calls[r][j] # "Finalize"
     /\ Ended(r) =>
           /\ CountCall(mpi_calls[r], "Init") = 1
           /\ CountCall(mpi_calls[r], "Finalize") = 1


\* the sum of the lengths declared by the workers of rank below i
LengthsBelow(lengths, i) == Sum([k \in 1 .. i |-> lengths[k - 1]])

\* the places of the receive buffer that belong to worker i
Segment(lengths, offsets, i) == (offsets[i] + 1) .. (offsets[i] + lengths[i])

\* one variable-length gather: sent[i] is what worker i sent
GatherLayout(lengths, offsets, buffer, sent) ==
  /\ DOMAIN lengths = Ranks /\ DOMAIN offsets = Ranks
  /\ \A i \in Ranks : lengths[i] = Len(sent[i])
  /\ \A i \in Ranks : offsets[i] = LengthsBelow(lengths, i)
  /\ offsets[0] = 0
  /\ \A i \in Ranks \ {0} : offsets[i] = offsets[i - 1] + lengths[i - 1]
  /\ Len(buffer) = LengthsBelow(lengths, world_size)
  /\ \A i, j \in Ranks :
        i # j => Segment(lengths, offsets, i) \cap Segment(lengths, offsets, j) = {}
  /\ UNION {Segment(lengths, offsets, i) : i \in Ranks} = DOMAIN buffer
  /\ \A i \in Ranks : \A k \in 1 .. lengths[i] : buffer[offsets[i] + k] = sent[i][k]

\* C23: once rank 0 has completed a variable-length gather, its offsets are
\* the sums of the lengths of the workers of lower rank, the workers' segments
\* are pairwise disjoint, follow one another and cover the receive buffer,
\* whose size is the sum of the lengths, and every segment holds what its
\* worker sent; for the listings, the document indices and the row values,
\* also when a worker sends nothing.
C23_GatherOffsets ==
  /\ pc[0] \in {"p_bcast_len", "p_bcast_vocab"} \cup AfterBcast =>
        GatherLayout(vocab_byte_counts, vocab_displs, global_vocab_buffer,
                     local_vocab_serialized)
  /\ pc[0] \in AfterRows =>
        GatherLayout(row_counts, doc_index_displs, gathered_doc_indices, local_doc_indices)
  /\ pc[0] \in {"p_assemble"} \cup AfterAssemble =>
        GatherLayout(value_counts, value_displs, gathered_values, local_rows_flat)

\* rank 0 sent nothing to any of the three gathers, rank 1 sent a listing of
\* two terms and one row
C23_Witness ==
  /\ world_size = 2
  /\ pc[0] \in AfterAssemble
  /\ vocab_byte_counts = (0 :> 0 @@ 1 :> 4)
  /\ row_counts = (0 :> 0 @@ 1 :> 1)
  /\ value_counts = (0 :> 0 @@ 1 :> 2)
  /\ Len(gathered_values) = 2

\* both workers sent to the three gathers
C23_WitnessBoth ==
  /\ world_size = 2
  /\ pc[0] \in AfterAssemble
  /\ vocab_displs = (0 :> 0 @@ 1 :> 2)
  /\ doc_index_displs = (0 :> 0 @@ 1 :> 1)
  /\ value_displs = (0 :> 0 @@ 1 :> 1)
  /\ Len(gathered_values) = 2


\* the k-th block of n values of a flat buffer
Block(values, k, n) == SubSeq(values, (k - 1) * n + 1, k * n)

\* C24: once rank 0 has completed the gather of the values, the gathered
\* indices are as many as the rows and the gathered values as many as rows
\* times vocabulary size, and for every k the k-th gathered index and the k-th
\* block of values are the j-th index and the j-th row of one worker i, with
\* k = doc_index_displs[i] + j, and the block holds the counts of the document
\* of that index; for every vocabulary size, 0 included.
C24_IndexAndValuesAligned ==
  pc[0] \in {"p_assemble"} \cup AfterAssemble =>
     LET vocab_size == Len(global_vocabulary[0])
     IN  /\ Len(gathered_doc_indices) = TotalRows
         /\ Len(gathered_values) = TotalRows * vocab_size
         /\ \A i \in Ranks : value_displs[i] = doc_index_displs[i] * vocab_size
         /\ \A k \in 1 .. TotalRows :
               \E i \in Ranks : \E j \in DOMAIN local_doc_indices[i] :
                  /\ k = doc_index_displs[i] + j
                  /\ gathered_doc_indices[k] = local_doc_indices[i][j]
                  /\ Block(gathered_values, k, vocab_size) =
                       Block(local_rows_flat[i], j, vocab_size)
                  /\ Block(gathered_values, k, vocab_size) =
                       CountsOf(filename(document_paths[0][gathered_doc_indices[k] + 1]),
                                global_vocabulary[0])

\* rank 0 sent the rows of documents 0 and 2, rank 1 that of document 1; the
\* rows of rank 0 differ
C24_Witness ==
  /\ world_size = 2
  /\ pc[0] \in AfterAssemble
  /\ gathered_doc_indices = <<0, 2, 1>>
  /\ gathered_values = <<1, 0, 0, 1, 1, 0>>


\* the content of the j-th document worker r has counted
LocalContent(r, j) == fs[filename(document_paths[r][local_doc_indices[r][j] + 1])].content

\* C25: once a worker holds the broadcast vocabulary, every term of each of
\* its maps is in it; so the rows it builds drop no count: the values of the
\* row of a document add up to the number of tokens of the document, which is
\* the number of its maximal runs of term bytes.
C25_NoCountDropped ==
  \A r \in Ranks :
     /\ pc[r] \in AfterBcast =>
           \A j \in DOMAIN local_counts[r] :
              DOMAIN local_counts[r][j] \subseteq Range(global_vocabulary[r])
     /\ pc[r] \in AfterRows =>
           \A j \in DOMAIN local_counts[r] :
              LET row == Block(local_rows_flat[r], j, Len(global_vocabulary[r]))
              IN  /\ Sum(row) = Len(tokenize_document(LocalContent(r, j)))
                  /\ Sum(row) = Cardinality(Runs(LocalContent(r, j)))

\* worker 1 has built the row of its document, whose only term is the second
\* of the vocabulary; the first term is one of worker 0
C25_Witness ==
  /\ world_size = 2
  /\ pc[1] \in AfterRows
  /\ Len(global_vocabulary[1]) = 2
  /\ Len(local_counts[0]) = 1
  /\ local_rows_flat[1] = <<0, 1>>


\* C26: for every set of terms the tokenizer can emit, splitting what
\* join_words_with_newline made of the set gives the terms of the set, each
\* once, in strictly ascending order; and splitting the concatenation of the
\* workers' listings chunk by chunk gives the terms of all the sets, no other
\* and none missing.
C26_JoinSplitRoundTrip ==
  /\ \A i \in DOMAIN list_words : \A t \in list_words[i] :
        /\ tokenize_document(t) = <<t>>
        /\ NL \notin Range(t)
  /\ \A i \in DOMAIN list_parts :
        list_parts[i].done =>
           /\ Range(list_parts[i].value) = list_words[i]
           /\ Len(list_parts[i].value) = Cardinality(list_words[i])
           /\ StrictlyLexAscending(list_parts[i].value)
  /\ global_vocab_set.done =>
        global_vocab_set.value = UNION {list_words[i] : i \in DOMAIN list_words}

\* two workers; one has a term and a longer term that begins with it, the
\* other shares a term with the first; both listings were split and collected
C26_Witness ==
  /\ DOMAIN list_words = {0, 1}
  /\ list_words[0] = {<<97>>, <<97, 48>>}
  /\ list_words[1] = {<<95>>, <<97>>}
  /\ list_parts[0].done /\ list_parts[1].done
  /\ list_parts[0].value = <<<<97>>, <<97, 48>>>>
  /\ list_parts[1].value = <<<<95>>, <<97>>>>
  /\ global_vocab_set.done
  /\ Cardinality(global_vocab_set.value) = 3


=============================================================================
